---- MODULE Spec2Model ----
(***************************************************************************)
(* Model of the adaptive fetch core of the DB Schenker tracking client:    *)
(* fetchJson (src/src/services/dbSchenkerClient.ts) with its response      *)
(* cache, its challenge solve-and-resend path and its retry loop.          *)
(*                                                                         *)
(* One fetchJson call is a small process: its position (pc) is the await   *)
(* it is suspended on -- the first fetch of an attempt ("send"), the       *)
(* solveCaptcha call ("solve"), the fetch that carries the Captcha-        *)
(* Solution header ("resend"), the backoff timer ("sleep") -- or "done"    *)
(* once it has returned or thrown.  Everything the handler does between    *)
(* two awaits is one action.                                               *)
(*                                                                         *)
(* Error messages matter to the control flow: the catch block of the       *)
(* retry loop rethrows at once when the message contains "parse JSON" or   *)
(* "fetch", so every error carries `mark`, whether its message contains    *)
(* one of these words.  Messages embed the URL and up to 200 characters    *)
(* of the response body, so URLs and bodies carry that attribute too.      *)
(*                                                                         *)
(* The tracking operation, DbSchenkerAdapter.track (src/unnamed/part_010), *)
(* sits on top: its blocked-reference cache, the lookup call, the details  *)
(* and trip calls it awaits together, and the payload it returns.  There   *)
(* a fetchJson call is followed from the attempt that ends it: the         *)
(* attempts before it were answered by retried errors and leave nothing    *)
(* behind but the attempt counter.  The handler of the track_shipment tool *)
(* in src/src/tools/trackShipment.ts does the same three calls without the *)
(* adapter; it is the second operation of that part of the model.          *)
(*                                                                         *)
(* The puzzle solver, solveCaptcha (src/src/services/captchaSolver.ts), is *)
(* modelled on its own: the decoding of a challenge into descriptors, the  *)
(* nonce searches that run together, and the credential built from them.   *)
(* SHA-256 is an unknown function there: a hash is any of a few values,    *)
(* and the same value whenever the same input is hashed again.             *)
(*                                                                         *)
(* The browser worker, BrowserWorker (src/unnamed/part_007), is the other  *)
(* way to the same data: one browser driver, a queue of track() requests   *)
(* worked off by one loop, and a cache of results.  Its track() calls run  *)
(* concurrently and interleave at their awaits with each other and with    *)
(* shutdown().                                                             *)
(***************************************************************************)
EXTENDS Integers, Sequences, FiniteSets, TLC

VARIABLES call, cache, now, trk, blocked, cap, bw

vars == <<call, cache, now, trk, blocked, cap, bw>>

----------------------------------------------------------------------------
(* Bounds of the model *)

\* largest retry budget (opts.retries) a caller passes
MaxRetries == 3

\* the clock stops advancing here
MaxNow == 60000

\* the safety limit of the nonce search, Number.MAX_SAFE_INTEGER in the code
\* (2^53 - 1, the largest nonce for which nonce++ is still exact), scaled down
MaxSafeNonce == 2

----------------------------------------------------------------------------
(* Program constants *)

CACHE_TTL_MS == 60000

DefaultRetries == 3

DefaultRetryDelayMs == 1000

----------------------------------------------------------------------------
(* Inputs *)

\* identifiers of fetchJson invocations that may be in progress
Calls == {"c1", "c2"}

\* the calls the sequential specification runs, one after the other
SeqCalls == {"c1"}

\* request URLs; "uFetch" stands for a URL whose text contains "fetch"
\* (BASE + "/shipments?query=" + a reference such as "fetch1")
URLs == {"u1", "uFetch"}

UrlHasMark(u) == u = "uFetch"

\* HTTP statuses the origin answers with
Statuses == {200, 302, 400, 403, 404, 422, 429, 503}

\* values of the Captcha-Puzzle response header: "none" is an absent header,
\* "empty" a present header with an empty value, "good" a credential that
\* decodes and solves, "badformat" one that parsePuzzle rejects, "short" one
\* whose payload is too short to hash
PuzzleHeaders == {"empty", "good", "badformat", "short"}

\* response bodies: "j1", "j2" are JSON documents (sent as application/json),
\* "txt" is text that is not JSON, "txtInvalid" is text containing
\* "invalid solution", "txtFetch" is text containing "fetch"
Bodies == {"j1", "j2", "txt", "txtInvalid", "txtFetch"}

IsJson(b) == b \in {"j1", "j2", "j3"}

BodyHasMark(b) == b = "txtFetch"

BodySaysInvalid(b) == b = "txtInvalid"

\* the responses the origin may give: any status with any body, where the
\* second JSON document comes only with a 2xx, the "invalid solution" text
\* only with a 422, and a challenge header only with a 429 or (a header the
\* client must ignore) with a 503
Responses ==
  { r \in [status : Statuses, puzzle : PuzzleHeaders \cup {"none"}, body : Bodies] :
      /\ r.puzzle # "none" => r.status = 429 \/ (r.status = 503 /\ r.puzzle = "good")
      /\ r.body = "j2" => r.status = 200
      /\ r.body = "txtInvalid" => r.status = 422 }

NoResp == [status |-> 0, puzzle |-> "none", body |-> "none"]

\* Math.random() in thousandths
Randoms == {0, 999}

\* amounts by which the clock advances between two steps
TickSteps == {59999, 60000}

----------------------------------------------------------------------------
(* Errors and results *)

Err(kind, status, api, mark) ==
  [kind |-> kind, status |-> status, api |-> api, mark |-> mark]

NoErr == Err("none", 0, FALSE, FALSE)

\* new Error(`Failed to fetch ${url} after ${retries} retries`)
FallbackErr(u) == Err("Fallback", 0, FALSE, TRUE)

NoResult == [outcome |-> "none", data |-> "none", err |-> NoErr, fromCache |-> FALSE]

NoEntry == [data |-> "none", ts |-> -1]

IdleCall ==
  [pc |-> "idle", url |-> "none", retries |-> 0, retryDelayMs |-> 0,
   attempt |-> 0, sends |-> 0, sleeps |-> 0, onlyTransient |-> TRUE,
   last |-> NoResp, resent |-> FALSE, sentSolution |-> "none",
   solution |-> "none", lastErr |-> NoErr, delay |-> 0, evicted |-> FALSE,
   result |-> NoResult]

----------------------------------------------------------------------------
(* Helpers of fetchJson *)

\* res.ok
Ok(status) == status >= 200 /\ status <= 299

\* a variant of IsFresh that takes the TTL in seconds
IsFreshSeconds(entry, t) == t - entry.ts < CACHE_TTL_MS \div 1000

\* age < CACHE_TTL_MS, for the entry found under the URL
IsFresh(entry, t) == t - entry.ts < CACHE_TTL_MS

\* a variant of LoopContinues that stops one iteration early
LoopContinuesStrict(attempt, retries) == attempt < retries

\* the condition of the retry loop, for (...; attempt <= retries; attempt++)
LoopContinues(attempt, retries) == attempt <= retries

\* a test of the budget that allows one more retry
ExhaustedLate(attempt, retries) == attempt > retries

\* if (attempt >= retries) throw
Exhausted(attempt, retries) == attempt >= retries

\* a variant of NoRetryMessage that never matches
NoRetryMessageNever(e) == FALSE

\* e.message.includes("parse JSON") || e.message.includes("fetch")
NoRetryMessage(e) == e.mark

RECURSIVE Pow2(_)
Pow2(n) == IF n = 0 THEN 1 ELSE 2 * Pow2(n - 1)

\* a backoff that grows by the base delay per attempt instead of doubling
BackoffDelayLinear(retryDelayMs, attempt, rnd) ==
  LET baseDelay == retryDelayMs * (attempt + 1)
      jitter == (rnd * baseDelay * 3) \div 10000
  IN  baseDelay + jitter

\* baseDelay + jitter, with baseDelay = retryDelayMs * 2^attempt and
\* jitter = Math.random() * baseDelay * 0.3 (rnd is Math.random() in thousandths)
BackoffDelay(retryDelayMs, attempt, rnd) ==
  LET baseDelay == retryDelayMs * Pow2(attempt)
      jitter == (rnd * baseDelay * 3) \div 10000
  IN  baseDelay + jitter

\* solveCaptcha(puzzleHeader): the credential, or "none" when it throws
SolveCaptcha(header) == IF header = "good" THEN "sol_good" ELSE "none"

\* a variant of RetryHeaders that leaves the header out
RetryHeadersWithout(solution) == "none"

\* retryHeaders["Captcha-Solution"] = solution
RetryHeaders(solution) == solution

\* the call has returned data
Returned(s, data, fromCache) ==
  [s EXCEPT !.pc = "done",
            !.result = [outcome |-> "value", data |-> data, err |-> NoErr,
                        fromCache |-> fromCache]]

\* the call has thrown e to its caller
Thrown(s, e) ==
  [s EXCEPT !.pc = "done", !.lastErr = e,
            !.result = [outcome |-> "error", data |-> "none", err |-> e,
                        fromCache |-> FALSE]]

\* await sleep(delay)
Sleeping(s, e, rnd) ==
  [s EXCEPT !.pc = "sleep", !.lastErr = e, !.sleeps = @ + 1,
            !.delay = BackoffDelay(s.retryDelayMs, s.attempt, rnd)]

\* the catch block of the retry loop
Catch(s, e, rnd) ==
  IF NoRetryMessage(e) THEN Thrown(s, e)
  ELSE IF Exhausted(s.attempt, s.retries) THEN Thrown(s, e)
  ELSE Sleeping(s, e, rnd)

\* lastErr = ...; if (attempt >= retries) throw lastErr; await sleep(delay); continue
\* (the throw lands in the catch block of the same iteration)
RetryOrThrow(s, e, rnd) ==
  IF Exhausted(s.attempt, s.retries) THEN Catch(s, e, rnd)
  ELSE Sleeping(s, e, rnd)

\* entering an iteration of the loop, or leaving the loop for the final throw
EnterLoop(s) ==
  IF LoopContinues(s.attempt, s.retries) THEN [s EXCEPT !.pc = "send"]
  ELSE Thrown(s, IF s.lastErr.kind # "none" THEN s.lastErr ELSE FallbackErr(s.url))

\* `Failed to solve CAPTCHA puzzle: ${error.message}. URL: ${url}`
Wrap(u, inner) ==
  Err("SolveFailed", inner.status, FALSE, inner.mark \/ UrlHasMark(u))

\* is the response one of the two retryable kinds (429 without a challenge
\* header, 5xx)
IsTransient(r) ==
  \/ r.status = 429 /\ r.puzzle = "none"
  \/ r.status >= 500 /\ r.status <= 599

\* a test of the challenge header that never finds one
HasCaptchaPuzzleHeaderNever(r) == FALSE

\* res.headers.has("Captcha-Puzzle") || has("captcha-puzzle") || has("X-Captcha-Puzzle")
HasCaptchaPuzzleHeader(r) == r.puzzle # "none"

\* what the handler does with the response to the first fetch of an attempt,
\* up to its next await, return or throw (the cache write is in Send)
HandleFirst(s, r, rnd) ==
  LET u == s.url
      hasCaptchaPuzzleHeader == HasCaptchaPuzzleHeader(r)
      urlMark == UrlHasMark(u)
  IN
  IF r.status = 429 /\ hasCaptchaPuzzleHeader THEN
    IF r.puzzle = "empty"
    THEN Catch(s, Err("CaptchaBlocked", 429, FALSE, urlMark), rnd)
    ELSE [s EXCEPT !.pc = "solve"]
  ELSE IF r.status = 429 /\ ~hasCaptchaPuzzleHeader THEN
    RetryOrThrow(s, Err("RateLimited", 429, FALSE, urlMark \/ BodyHasMark(r.body)), rnd)
  ELSE IF r.status >= 500 /\ r.status <= 599 THEN
    RetryOrThrow(s, Err("Http", r.status, FALSE, urlMark \/ BodyHasMark(r.body)), rnd)
  ELSE IF r.status = 422 /\ BodySaysInvalid(r.body) THEN
    Catch(s, Err("CaptchaSolutionInvalid", 422, FALSE, urlMark \/ BodyHasMark(r.body)), rnd)
  ELSE IF ~Ok(r.status) THEN
    \* for a 422 the body was consumed by res.text() above: reading it again
    \* throws, the throw is ignored and errorText stays empty
    LET consumed == r.status = 422
        errorData == ~consumed /\ IsJson(r.body)
        is4xx == r.status >= 400 /\ r.status < 500
        e == Err("Http", r.status, is4xx /\ errorData,
                 urlMark \/ (~consumed /\ BodyHasMark(r.body)))
    IN  IF is4xx THEN Catch(s, e, rnd) ELSE RetryOrThrow(s, e, rnd)
  ELSE IF ~IsJson(r.body) THEN
    \* `Failed to parse JSON response from ${url}: ...`
    Catch(s, Err("ParseJson", 0, FALSE, TRUE), rnd)
  ELSE Returned(s, r.body, FALSE)

\* what the handler does with the response to the fetch that carried the
\* Captcha-Solution header; syntaxMark is whether the JSON parser's message
\* quotes a "fetch" of the body text
HandleResend(s, r, syntaxMark, rnd) ==
  LET u == s.url
      bodyMark == BodyHasMark(r.body)
  IN
  IF Ok(r.status) THEN
    IF IsJson(r.body) THEN Returned(s, r.body, FALSE)
    ELSE Catch(s, Wrap(u, Err("Syntax", 0, FALSE, syntaxMark)), rnd)
  ELSE IF r.status = 422 THEN
    Catch(s, Err("CaptchaSolutionInvalid", 422, FALSE, bodyMark), rnd)
  ELSE IF r.status = 429 THEN
    Catch(s, Err("CaptchaBlocked", 429, FALSE, UrlHasMark(u)), rnd)
  ELSE IF r.status = 404 THEN
    Catch(s, Wrap(u, Err("Http", 404, FALSE, bodyMark)), rnd)
  ELSE IF r.status = 400 THEN
    IF IsJson(r.body)
    THEN Catch(s, Err("Http", 400, TRUE, FALSE), rnd)
    ELSE Catch(s, Wrap(u, Err("Http", 400, FALSE, bodyMark)), rnd)
  ELSE Catch(s, Wrap(u, Err("Http", r.status, FALSE, bodyMark)), rnd)

\* the values of Math.random() that matter to a step ending in state s: the
\* number is drawn only on the way to a sleep
Draws(s) == IF s.pc = "sleep" THEN Randoms ELSE {0}

\* a cache write that does not look at the status of the response
CacheAfterFirstAnyStatus(s, r) ==
  IF IsJson(r.body)
  THEN [cache EXCEPT ![s.url] = [data |-> r.body, ts |-> now]]
  ELSE cache

\* cache.set(url, { data: jsonData, ts: Date.now() }) on the first-send success
CacheAfterFirst(s, r) ==
  IF Ok(r.status) /\ IsJson(r.body)
  THEN [cache EXCEPT ![s.url] = [data |-> r.body, ts |-> now]]
  ELSE cache

----------------------------------------------------------------------------
(* Data of the tracking operation *)

\* BLOCKED_TTL_MS = 60 * 1000
BLOCKED_TTL_MS == 60000

\* the tracking references callers ask for
Refs == {"r1"}

\* `${BASE}/shipments?query=${encodeURIComponent(reference)}`
SearchUrl(ref) == IF ref = "r1" THEN "s_r1" ELSE "s_r2"

\* `${BASE}/shipments/land/${encodeURIComponent(`LandStt:${stt}`)}`
DetailsUrl(stt) == IF stt = "k1" THEN "d_k1" ELSE "d_none"

\* `${BASE}/shipments/land/${encodeURIComponent(`LandStt:${stt}`)}/trip`
TripUrl(stt) == IF stt = "k1" THEN "t_k1" ELSE "t_none"

\* the URLs the tracking operation fetches
TrackURLs == {SearchUrl(ref) : ref \in Refs} \cup {DetailsUrl("k1"), TripUrl("k1")}

\* The JSON documents upstream serves.  "j1" has every field the operation
\* reads: as a lookup result, a first entry with the STT "k1"; as details,
\* events and packages; as a trip, start, end and trip points.  "j2" has none
\* of them (an empty result list).  "j3" is a lookup result whose first entry
\* has no STT.
HasFields(data) == data = "j1"

\* search?.result?.length
HasResult(data) == data \in {"j1", "j3"}

\* a lookup whose first entry always yields the STT "k1"
SttOfAlways(data) == "k1"

\* search.result[0]?.stt
SttOf(data) == IF data = "j1" THEN "k1" ELSE "none"

\* the responses upstream gives to the calls of a tracking operation for the
\* URL u: the lookup is answered by any of the documents, details and trip by
\* the full one
TrackResponses(u) ==
  [status : {200}, puzzle : {"none"},
   body : IF u \in {SearchUrl(ref) : ref \in Refs}
          THEN {"j1", "j2", "j3", "txt"} ELSE {"j1", "txt"}]
    \cup [status : {400}, puzzle : {"none"}, body : {"j1"}]
    \cup [status : {404, 503}, puzzle : {"none"}, body : {"txt"}]
    \cup [status : {422}, puzzle : {"none"}, body : {"txtInvalid"}]
    \cup [status : {429}, puzzle : {"none", "good", "empty"}, body : {"txt"}]

\* the attempt that ends a fetchJson call of the tracking operation: the
\* first one, or the last one the default budget allows
FinalAttempts == {0, DefaultRetries}

\* Math.random() of the attempt that ends the call, in thousandths
TrackRandoms == {0, 585}

\* what the operation knows of a fetchJson call it awaits: not yet called,
\* pending, or settled with a value or an error.  nf is whether the error's
\* message contains "404" or "Not Found"; resent and last say how the call
\* ended (after a resend or not, and on which response); sent is whether the
\* call went to the network
NoOutcome ==
  [state |-> "none", data |-> "none", err |-> NoErr, nf |-> FALSE,
   resent |-> FALSE, last |-> NoResp, sent |-> FALSE]

Pending == [NoOutcome EXCEPT !.state = "pending"]

\* TrackingResult: the payload track() resolves with.  kind is "ok", the
\* value of `error`, or "blocked"; the other fields say which parts of the
\* shipment data the payload carries
NoPayload ==
  [kind |-> "none", ref |-> "none", hasDetails |-> FALSE, hasTrip |-> FALSE,
   history |-> FALSE, packages |-> FALSE, tripEnds |-> FALSE,
   tripPoints |-> FALSE, retryable |-> FALSE, reason |-> NoErr,
   hasCaptchaPuzzleHeader |-> FALSE]

\* an entry of blockedCaptchaCache
NoRecord == [ts |-> -1, response |-> NoPayload]

\* the tracking operation: which code runs it (the adapter's track(), or the
\* handler of the track_shipment tool that does the three calls itself),
\* where it is suspended, its reference, the first entry of the lookup
\* result, the two calls awaited together, the fetchJson calls made and how
\* many went to the network, and the payload
IdleTrack ==
  [op |-> "none", pc |-> "idle", ref |-> "none", top |-> "none", details |-> NoOutcome,
   trip |-> NoOutcome, calls |-> 0, netCalls |-> 0, result |-> NoPayload]

----------------------------------------------------------------------------
(* Data of the puzzle solver (src/src/services/captchaSolver.ts)           *)

\* Puzzle payloads, the bytes of the "puzzle" field: their length and the
\* bytes at offsets 13 and 14 as the base64 text gives them (0..255).  Two
\* payloads that agree in these agree in their first 32 bytes.
Payload32(b13, b14) == [len |-> 32, b13 |-> b13, b14 |-> b14]

Payloads ==
  { [len |-> 14, b13 |-> 5, b14 |-> 0],
    [len |-> 15, b13 |-> 5, b14 |-> 10],
    [len |-> 31, b13 |-> 5, b14 |-> 10],
    Payload32(5, 10), Payload32(3, 10), Payload32(4, 0), Payload32(4, 200) }

\* the bytes of a token that has no puzzle field to decode
NoBytes == [len |-> 0, b13 |-> 0, b14 |-> 0]

\* what the middle segment of a token decodes to: nothing (the segment is
\* empty), text that is not JSON, a JSON object without a "puzzle" field,
\* with a "puzzle" that is not a string, with an empty one, or with a
\* "puzzle" string
BadParts == {"noSegment", "notJson", "noField", "notString", "emptyString"}

Token(segs, pad, part, bytes) ==
  [kind |-> "token", segs |-> segs, pad |-> pad, part |-> part, bytes |-> bytes]

\* The fragments of a decoded challenge: the empty string, white space, or a
\* token of `segs` dot-separated segments, possibly with white space around
\* it
Fragments ==
  { [kind |-> "empty", segs |-> 0, pad |-> FALSE, part |-> "noSegment", bytes |-> NoBytes],
    [kind |-> "blank", segs |-> 0, pad |-> TRUE, part |-> "noSegment", bytes |-> NoBytes] }
  \cup { Token(3, FALSE, x, NoBytes) : x \in BadParts }
  \cup { Token(3, FALSE, "puzzle", x) : x \in Payloads }
  \cup { Token(n, FALSE, "puzzle", Payload32(5, 10)) : n \in {2, 4} }
  \cup { Token(3, TRUE, "puzzle", Payload32(5, 10)) }

\* Buffer.from(puzzleHeader, "base64").toString("utf-8").split(","): the
\* challenge credentials, as the lists of one or two fragments they decode to
Headers == {<<f>> : f \in Fragments} \cup {<<f, g>> : f \in Fragments, g \in Fragments}

\* SHA-256 is not computed here: the double hash of a (payload, nonce) pair
\* is one of these values, the same one each time the pair is hashed
HashValues == {0, 10, 655360}

\* jwt.trim()
Trim(f) == [f EXCEPT !.pad = FALSE]

\* a filter that keeps every fragment
NonBlankAlways(f) == TRUE

\* jwt.trim().length > 0
NonBlank(f) == f.kind = "token"

RECURSIVE SelectFragments(_, _)
\* filter(jwt => jwt.trim().length > 0), on fragments i.. of the list
SelectFragments(h, i) ==
  IF i > Len(h) THEN <<>>
  ELSE IF NonBlank(h[i]) THEN <<h[i]>> \o SelectFragments(h, i + 1)
  ELSE SelectFragments(h, i + 1)

\* the error the map callback of parsePuzzle throws for one token, or "none"
TokenError(f) ==
  IF f.segs # 3 THEN "Invalid JWT format"
  ELSE IF f.part = "noSegment" THEN "Missing JWT payload"
  ELSE IF f.part = "notJson" THEN "SyntaxError"
  ELSE IF f.part \in {"noField", "notString", "emptyString"}
       THEN "Missing or invalid puzzle field in JWT payload"
  ELSE "none"

\* { jwt: jwt.trim(), puzzle: new Int8Array(puzzleBytes) }
Descriptor(f) == [jwt |-> Trim(f), puzzle |-> f.bytes]

\* parsePuzzle(puzzleHeader): the descriptors, or the error of the first
\* token that has one
ParsePuzzle(h) ==
  LET jwts == SelectFragments(h, 1)
      bad == {i \in 1..Len(jwts) : TokenError(jwts[i]) # "none"}
  IN  IF bad # {}
      THEN [error |-> TokenError(jwts[CHOOSE i \in bad : \A j \in bad : i <= j]),
            puzzles |-> <<>>]
      ELSE [error |-> "none", puzzles |-> [i \in 1..Len(jwts) |-> Descriptor(jwts[i])]]

\* an element of an Int8Array: the byte b read as a signed 8-bit number
Int8(b) == IF b >= 128 THEN b - 256 ELSE b

\* a conversion that keeps the sign of the element
Uint8Signed(v) == v

\* the value a Buffer gives to the Int8Array element v
Uint8(v) == IF v < 0 THEN v + 256 ELSE v

RECURSIVE NonceBytes(_, _)
\* the loop of numberToInt8Array, k bytes to go: byte = 255 & value;
\* value = Math.floor((value - byte) / 256)
NonceBytes(value, k) ==
  IF k = 0 THEN <<>>
  ELSE LET byte == value % 256
       IN  <<Int8(byte)>> \o NonceBytes((value - byte) \div 256, k - 1)

\* numberToInt8Array(n): 8 bytes, little-endian
NumberToInt8Array(n) == NonceBytes(n, 8)

\* Buffer.from(solution).toString("base64"), as the bytes the text stands for
Base64OfBytes(bytes) == [i \in 1..Len(bytes) |-> Uint8(bytes[i])]

RECURSIVE LittleEndian(_, _)
\* the number that the bytes i.. of a little-endian sequence stand for
LittleEndian(bytes, i) ==
  IF i > Len(bytes) THEN 0 ELSE bytes[i] + 256 * LittleEndian(bytes, i + 1)

\* puzzle.length < 15
TooShortForTarget(p) == p.len < 15

\* a length test that lets a 31-byte payload through
TooShortToHashBy31(p) == p.len < 31

\* puzzle.length < 32
TooShortToHash(p) == p.len < 32

\* calculateTarget(puzzle) for a payload of at least 15 bytes: `power` starts
\* at 2 and is doubled for i = 1 .. exponent - 1, so it is 2^exponent for an
\* exponent of 1 or more and 2 otherwise
CalculateTarget(p) ==
  LET byte13 == Int8(p.b13)
      byte14 == Int8(p.b14)
      exponent == 8 * (byte13 - 3)
      power == IF exponent >= 1 THEN Pow2(exponent) ELSE 2
  IN  byte14 * power

\* a search that tries the same nonce again
NextNonceSame(nonce) == nonce

\* nonce++
NextNonce(nonce) == nonce + 1

\* nonce > Number.MAX_SAFE_INTEGER
PastSafetyLimit(nonce) == nonce > MaxSafeNonce

\* one solvePuzzle call: where it is, the nonce it is trying, its target, the
\* base64 nonce it returned or the error it threw
NoSolver ==
  [pc |-> "none", nonce |-> 0, target |-> 0, solution |-> <<>>, error |-> "none"]

\* one solveCaptcha call: its header, the descriptors, the solvePuzzle calls,
\* the order in which they settled, the hashes computed so far and what the
\* call returned or threw
IdleCaptcha ==
  [pc |-> "idle", header |-> <<>>, puzzles |-> <<>>, solvers |-> <<>>,
   settled |-> <<>>, hashes |-> {}, credential |-> <<>>, error |-> "none"]

----------------------------------------------------------------------------
(* The state machine *)

----------------------------------------------------------------------------
(* The browser worker of src/unnamed/part_007: one BrowserWorker object, and *)
(* the track() calls made on it.                                             *)

\* the track() calls that may be in progress at once
Callers == {"w1", "w2", "w3"}

\* the references they ask for
WorkerRefs == {"r1", "r2"}

\* the track(reference) calls: two of them ask for the same reference
Requests == {<<"w1", "r1">>, <<"w2", "r2">>, <<"w3", "r1">>}

\* cacheTTL = 60 * 1000
cacheTTL == 60 * 1000

\* cache.get(reference) is undefined
NoStamp == -1

\* a track() call that has not been made; `live` is whether executeTracking
\* found a driver, `settled` counts the calls of job.resolve and job.reject
NoJob ==
  [pc |-> "idle", ref |-> "none", live |-> FALSE, outcome |-> "none",
   settled |-> 0]

\* new BrowserWorker(): the field initialisers.  `job` is the position of
\* each track() call, `running` the jobs inside executeTracking, `quitting`
\* a shutdown() awaiting driver.quit(); `built` counts the drivers built
\* since the last shutdown, `enqueued` and `started` record the order of the
\* pushes and of the executeTracking calls, `written` the jobs whose result
\* was put into the cache.
NewWorker ==
  [driver |-> "null", initialized |-> FALSE, queue |-> <<>>,
   processing |-> FALSE, cache |-> [ref \in WorkerRefs |-> NoStamp],
   job |-> [t \in Callers |-> NoJob], running |-> {}, quitting |-> FALSE,
   built |-> 0, enqueued |-> <<>>, started |-> <<>>, written |-> {}]

Init ==
  /\ call = [c \in Calls |-> IdleCall]
  /\ cache = [u \in URLs \cup TrackURLs |-> NoEntry]
  /\ now = 0
  /\ trk = IdleTrack
  /\ blocked = [ref \in Refs |-> NoRecord]
  /\ cap = IdleCaptcha
  /\ bw = NewWorker

\* a lookup that leaves the expired entry in the cache
CacheDeleteNothing(u) == cache

\* cache.delete(url), for the expired entry found under the URL
CacheDelete(u) == [cache EXCEPT ![u] = NoEntry]

\* fetchJson(url, {retries}) up to its first await: the cache lookup
Start(c, u, r) ==
  /\ call[c].pc = "idle"
  /\ LET cached == cache[u]
         s0 == [IdleCall EXCEPT !.url = u, !.retries = r,
                                !.retryDelayMs = DefaultRetryDelayMs]
     IN  IF cached # NoEntry /\ IsFresh(cached, now)
         THEN /\ call' = [call EXCEPT ![c] = Returned(s0, cached.data, TRUE)]
              /\ UNCHANGED cache
         ELSE /\ call' = [call EXCEPT ![c] =
                           EnterLoop([s0 EXCEPT !.evicted = cached # NoEntry])]
              /\ cache' = CacheDelete(u)
  /\ UNCHANGED <<now, trk, blocked, cap, bw>>

\* the first fetch of an attempt is answered by r
Send(c, r, rnd) ==
  /\ call[c].pc = "send"
  /\ LET s == [call[c] EXCEPT !.sends = @ + 1, !.last = r, !.resent = FALSE,
                              !.sentSolution = "none",
                              !.onlyTransient = @ /\ IsTransient(r)]
     IN  /\ rnd \in Draws(HandleFirst(s, r, 0))
         /\ call' = [call EXCEPT ![c] = HandleFirst(s, r, rnd)]
         /\ cache' = CacheAfterFirst(s, r)
  /\ UNCHANGED <<now, trk, blocked, cap, bw>>

\* the first fetch of an attempt rejects: no response
SendFail(c, mark, rnd) ==
  /\ call[c].pc = "send"
  /\ LET s == [call[c] EXCEPT !.sends = @ + 1, !.last = NoResp, !.resent = FALSE,
                              !.sentSolution = "none", !.onlyTransient = FALSE]
     IN  /\ rnd \in Draws(Catch(s, Err("Network", 0, FALSE, mark), 0))
         /\ call' = [call EXCEPT ![c] = Catch(s, Err("Network", 0, FALSE, mark), rnd)]
  /\ UNCHANGED <<cache, now, trk, blocked, cap, bw>>

\* await solveCaptcha(puzzleHeader) settles
Solve(c, rnd) ==
  /\ call[c].pc = "solve"
  /\ LET s == call[c]
         solution == SolveCaptcha(s.last.puzzle)
         after(x) == IF solution # "none"
                     THEN [s EXCEPT !.pc = "resend", !.solution = solution]
                     ELSE Catch(s, Wrap(s.url, Err("Solver", 0, FALSE, FALSE)), x)
     IN  /\ rnd \in Draws(after(0))
         /\ call' = [call EXCEPT ![c] = after(rnd)]
  /\ UNCHANGED <<cache, now, trk, blocked, cap, bw>>

\* the fetch with the Captcha-Solution header is answered by r
Resend(c, r, syntaxMark, rnd) ==
  /\ call[c].pc = "resend"
  /\ LET s == [call[c] EXCEPT !.sends = @ + 1, !.last = r, !.resent = TRUE,
                              !.sentSolution = RetryHeaders(call[c].solution),
                              !.solution = "none", !.onlyTransient = FALSE]
     IN  /\ rnd \in Draws(HandleResend(s, r, syntaxMark, 0))
         /\ call' = [call EXCEPT ![c] = HandleResend(s, r, syntaxMark, rnd)]
  /\ UNCHANGED <<cache, now, trk, blocked, cap, bw>>

\* the fetch with the Captcha-Solution header rejects: no response
ResendFail(c, mark, rnd) ==
  /\ call[c].pc = "resend"
  /\ LET s == [call[c] EXCEPT !.sends = @ + 1, !.last = NoResp, !.resent = TRUE,
                              !.sentSolution = RetryHeaders(call[c].solution),
                              !.solution = "none", !.onlyTransient = FALSE]
         e == Wrap(s.url, Err("Network", 0, FALSE, mark))
     IN  /\ rnd \in Draws(Catch(s, e, 0))
         /\ call' = [call EXCEPT ![c] = Catch(s, e, rnd)]
  /\ UNCHANGED <<cache, now, trk, blocked, cap, bw>>

\* the backoff timer fires: attempt++ and the loop condition
Wake(c) ==
  /\ call[c].pc = "sleep"
  /\ call' = [call EXCEPT ![c] =
                EnterLoop([call[c] EXCEPT !.attempt = @ + 1, !.delay = 0])]
  /\ UNCHANGED <<cache, now, trk, blocked, cap, bw>>

\* the caller has taken the result; the slot is free for the next call
Return(c) ==
  /\ call[c].pc = "done"
  /\ call' = [call EXCEPT ![c] = IdleCall]
  /\ UNCHANGED <<cache, now, trk, blocked, cap, bw>>

\* time passes
Tick(d) ==
  /\ now + d <= MaxNow
  /\ now' = now + d
  /\ UNCHANGED <<call, cache, trk, blocked, cap, bw>>

SyntaxMarks(r) == IF BodyHasMark(r.body) THEN {TRUE, FALSE} ELSE {FALSE}

\* the steps of call c, for the URLs, retry budgets and responses given
StepOn(c, urls, budgets, responses) ==
  \/ \E u \in urls, r \in budgets : Start(c, u, r)
  \/ \E r \in responses, rnd \in Randoms : Send(c, r, rnd)
  \/ \E mark \in BOOLEAN, rnd \in Randoms : SendFail(c, mark, rnd)
  \/ \E rnd \in Randoms : Solve(c, rnd)
  \/ \E r \in responses, rnd \in Randoms :
       \E syntaxMark \in SyntaxMarks(r) : Resend(c, r, syntaxMark, rnd)
  \/ \E mark \in BOOLEAN, rnd \in Randoms : ResendFail(c, mark, rnd)
  \/ Wake(c)
  \/ Return(c)

Step(c) == StepOn(c, URLs, 0..MaxRetries, Responses)

Next ==
  \/ \E c \in SeqCalls : Step(c)
  \/ \E d \in TickSteps : Tick(d)

Spec == Init /\ [][Next]_vars

----------------------------------------------------------------------------
(* Concurrent calls: every call of Calls may be in progress at once, and     *)
(* their steps interleave at the awaits.                                     *)

\* the retry budgets (opts.retries) of the concurrent calls
ConcBudgets == {0, 1}

\* the responses the concurrent calls receive: a success with either JSON
\* document, a success whose body is not JSON, a solvable challenge and a
\* client error with a JSON body
ConcResponses ==
  { r \in Responses :
      \/ r.status = 200 /\ r.puzzle = "none" /\ r.body \in {"j1", "j2", "txt"}
      \/ r.status = 429 /\ r.puzzle = "good" /\ r.body = "txt"
      \/ r.status = 400 /\ r.puzzle = "none" /\ r.body = "j1" }

NextConc ==
  \/ \E c \in Calls : StepOn(c, URLs, ConcBudgets, ConcResponses)
  \/ \E d \in TickSteps : Tick(d)

SpecConc == Init /\ [][NextConc]_vars

----------------------------------------------------------------------------
(* The tracking operation: DbSchenkerAdapter.track.  Slot "c1" is the       *)
(* lookup call and then the details call, slot "c2" the trip call.          *)

RECURSIVE Pow10(_)
Pow10(k) == IF k = 0 THEN 1 ELSE 10 * Pow10(k - 1)

\* does the decimal text of n (below 10^6) contain "404"
HasText404(n) == \E k \in 0..3 : (n \div Pow10(k)) % 1000 = 404

\* Math.round(delay), the number in "Backoff delay: ...ms"
RoundedDelay(retryDelayMs, attempt, rnd) ==
  LET baseDelay == retryDelayMs * Pow2(attempt)
  IN  baseDelay + (rnd * baseDelay * 3 + 5000) \div 10000

\* does the message of the error that ended call s contain "404" or
\* "Not Found": the status line of a 404 does, and so may the backoff delay
\* that the rate-limit message quotes
MessageSaysNotFound(s, rnd) ==
  LET e == s.result.err
  IN  \/ e.status = 404
      \/ /\ e.kind = "RateLimited"
         /\ HasText404(RoundedDelay(s.retryDelayMs, s.attempt, rnd))

\* the settled call s as the operation sees it
Outcome(s, rnd) ==
  [state |-> s.result.outcome, data |-> s.result.data, err |-> s.result.err,
   nf |-> s.result.outcome = "error" /\ MessageSaysNotFound(s, rnd),
   resent |-> s.resent, last |-> s.last, sent |-> ~s.result.fromCache]

\* the values of Math.random() that matter to the message of call s
MessageDraws(s) ==
  IF s.result.err.kind = "RateLimited" THEN TrackRandoms ELSE {0}

\* fetchJson(u) at the start of attempt a (counted from 0), the a attempts
\* before it having been answered by a retried server error
AtAttempt(u, a) ==
  [IdleCall EXCEPT !.pc = "send", !.url = u, !.retries = DefaultRetries,
                   !.retryDelayMs = DefaultRetryDelayMs, !.attempt = a,
                   !.sends = a, !.sleeps = a,
                   !.lastErr = IF a = 0 THEN NoErr
                               ELSE Err("Http", 503, FALSE, FALSE)]

\* fetchJson(u) as called by the operation: served from the cache, or on its
\* way to the network
Invoked(u, a) ==
  IF cache[u] # NoEntry /\ IsFresh(cache[u], now)
  THEN Returned([IdleCall EXCEPT !.url = u, !.retries = DefaultRetries,
                                 !.retryDelayMs = DefaultRetryDelayMs],
                cache[u].data, TRUE)
  ELSE [AtAttempt(u, a) EXCEPT !.evicted = cache[u] # NoEntry]

\* the cache after the lookups of the URLs in us: stale entries are deleted
CacheAfterLookup(us) ==
  [u \in DOMAIN cache |->
     IF u \in us /\ ~(cache[u] # NoEntry /\ IsFresh(cache[u], now))
     THEN NoEntry ELSE cache[u]]

\* a freshness test that still honours a record at exactly the TTL
BlockedFreshInclusive(rec, t) == t - rec.ts <= BLOCKED_TTL_MS

\* Date.now() - cachedBlocked.ts < BLOCKED_TTL_MS
BlockedFresh(rec, t) == t - rec.ts < BLOCKED_TTL_MS

\* searchShipment's catch: an error that carries apiError becomes the value
\* { message, code }, which has no result list
SearchShipment(o) ==
  IF o.state = "error" /\ o.err.api
  THEN [o EXCEPT !.state = "value", !.data = "apiError"]
  ELSE o

\* !errorMsg.includes("404") && !errorMsg.includes("Not Found") is false
Tolerated(o) == o.nf

Payload(kind, ref) == [NoPayload EXCEPT !.kind = kind, !.ref = ref]

\* the ok: true response built from the first lookup entry and from whichever
\* of details and trip are there
OkPayload(ref, d, t) ==
  LET details == d.state = "value"
      trip == t.state = "value"
      tracking == details /\ trip
  IN  [Payload("ok", ref) EXCEPT
         !.hasDetails = details,
         !.hasTrip = trip,
         !.packages = details /\ HasFields(d.data),
         !.history = tracking /\ HasFields(d.data),
         !.tripEnds = trip /\ HasFields(t.data),
         !.tripPoints = tracking /\ HasFields(t.data)]

\* a catch block that lets every error but the two CAPTCHA errors escape
TrackCatchRethrows(o, ref) ==
  IF o.err.kind = "CaptchaSolutionInvalid"
  THEN [Payload("CAPTCHA_SOLUTION_INVALID", ref) EXCEPT
          !.retryable = TRUE, !.reason = o.err]
  ELSE IF o.err.kind = "CaptchaBlocked"
  THEN [Payload("blocked", "none") EXCEPT
          !.reason = o.err, !.hasCaptchaPuzzleHeader = o.resent]
  ELSE Payload("rejected", ref)

\* the catch block of track(): the payload for the error o
TrackCatch(o, ref) ==
  IF o.err.kind = "CaptchaSolutionInvalid"
  THEN [Payload("CAPTCHA_SOLUTION_INVALID", ref) EXCEPT
          !.retryable = TRUE, !.reason = o.err]
  ELSE IF o.err.kind = "CaptchaBlocked"
  THEN [Payload("blocked", "none") EXCEPT
          !.reason = o.err, !.hasCaptchaPuzzleHeader = o.resent]
  ELSE [Payload("API_ERROR", ref) EXCEPT !.reason = o.err]

\* blockedCaptchaCache.set(reference, { ts: Date.now(), response }) for a
\* CaptchaBlockedError
BlockedAfter(o, ref) ==
  IF o.err.kind = "CaptchaBlocked"
  THEN [blocked EXCEPT ![ref] = [ts |-> now, response |-> TrackCatch(o, ref)]]
  ELSE blocked

\* the operation ends in its catch block with the error o
Caught(t, o) ==
  [t EXCEPT !.pc = "done", !.result = TrackCatch(o, t.ref)]

\* no call of an earlier operation is still in flight
SlotsFree == \A c \in Calls : call[c].pc = "idle"

\* track(reference) up to its first await: the blocked-reference fast path,
\* or the lookup call
Track(ref, a) ==
  /\ trk.pc = "idle"
  /\ SlotsFree
  /\ LET cachedBlocked == blocked[ref]
     IN  IF cachedBlocked # NoRecord /\ BlockedFresh(cachedBlocked, now)
         THEN /\ trk' = [IdleTrack EXCEPT !.op = "adapter", !.pc = "done",
                                          !.ref = ref,
                                          !.result = cachedBlocked.response]
              /\ UNCHANGED <<call, cache>>
         ELSE /\ trk' = [IdleTrack EXCEPT !.op = "adapter", !.pc = "search",
                                          !.ref = ref, !.calls = 1]
              /\ call' = [call EXCEPT !["c1"] = Invoked(SearchUrl(ref), a)]
              /\ cache' = CacheAfterLookup({SearchUrl(ref)})
  /\ UNCHANGED <<now, blocked, cap, bw>>

\* the steps of the attempt that ends the call in slot c
TrackSend(c) ==
  /\ \E r \in TrackResponses(call[c].url) : Send(c, r, 0)
  /\ call'[c].pc # "sleep"

TrackSendFail(c) ==
  /\ \E mark \in BOOLEAN : SendFail(c, mark, 0)
  /\ call'[c].pc # "sleep"

TrackSolve(c) ==
  /\ Solve(c, 0)
  /\ call'[c].pc # "sleep"

TrackResend(c) ==
  /\ \E r \in TrackResponses(call[c].url) : Resend(c, r, FALSE, 0)
  /\ call'[c].pc # "sleep"

TrackResendFail(c) ==
  /\ \E mark \in BOOLEAN : ResendFail(c, mark, 0)
  /\ call'[c].pc # "sleep"

\* the operation with the number of calls that went to the network updated
\* for the settled call o
Counted(t, o) == [t EXCEPT !.netCalls = @ + (IF o.sent THEN 1 ELSE 0)]

\* const [detailsResult, tripResult] = await Promise.allSettled([
\*   fetchShipmentDetailsLandSE(stt), fetchTripLandSE(stt) ]): both calls start
BothInvoked(t, data, a1, a2) ==
  LET stt == SttOf(data)
  IN  /\ trk' = [t EXCEPT !.pc = "both", !.top = data, !.details = Pending,
                          !.trip = Pending, !.calls = 3]
      /\ call' = [call EXCEPT !["c1"] = Invoked(DetailsUrl(stt), a1),
                              !["c2"] = Invoked(TripUrl(stt), a2)]
      /\ cache' = CacheAfterLookup({DetailsUrl(stt), TripUrl(stt)})

\* await searchShipment(reference) settles in track(): the result checks, and
\* the details and trip calls
SearchSettles(a1, a2) ==
  /\ trk.op = "adapter"
  /\ trk.pc = "search"
  /\ call["c1"].pc = "done"
  /\ LET o == Outcome(call["c1"], 0)
         search == SearchShipment(o)
         t1 == Counted(trk, o)
     IN  IF search.state = "error" THEN
           /\ trk' = Caught(t1, search)
           /\ blocked' = BlockedAfter(search, trk.ref)
           /\ call' = [call EXCEPT !["c1"] = IdleCall]
           /\ UNCHANGED cache
         ELSE IF ~HasResult(search.data) THEN
           /\ trk' = [t1 EXCEPT !.pc = "done",
                                !.result = Payload("NOT_FOUND", trk.ref)]
           /\ call' = [call EXCEPT !["c1"] = IdleCall]
           /\ UNCHANGED <<cache, blocked>>
         ELSE IF SttOf(search.data) = "none" THEN
           /\ trk' = [t1 EXCEPT !.pc = "done", !.top = search.data,
                                !.result = Payload("INVALID_RESPONSE", trk.ref)]
           /\ call' = [call EXCEPT !["c1"] = IdleCall]
           /\ UNCHANGED <<cache, blocked>>
         ELSE
           /\ BothInvoked(t1, search.data, a1, a2)
           /\ UNCHANGED blocked
  /\ UNCHANGED <<now, cap, bw>>

\* fetchShipmentDetailsLandSE(stt) settles
DetailsSettles(rnd) ==
  /\ trk.pc = "both"
  /\ trk.details.state = "pending"
  /\ call["c1"].pc = "done"
  /\ rnd \in MessageDraws(call["c1"])
  /\ trk' = [Counted(trk, Outcome(call["c1"], rnd)) EXCEPT
               !.details = Outcome(call["c1"], rnd)]
  /\ call' = [call EXCEPT !["c1"] = IdleCall]
  /\ UNCHANGED <<cache, now, blocked, cap, bw>>

\* fetchTripLandSE(stt) settles
TripSettles(rnd) ==
  /\ trk.pc = "both"
  /\ trk.trip.state = "pending"
  /\ call["c2"].pc = "done"
  /\ rnd \in MessageDraws(call["c2"])
  /\ trk' = [Counted(trk, Outcome(call["c2"], rnd)) EXCEPT
               !.trip = Outcome(call["c2"], rnd)]
  /\ call' = [call EXCEPT !["c2"] = IdleCall]
  /\ UNCHANGED <<cache, now, blocked, cap, bw>>

\* await Promise.allSettled([...]) resumes: the two results are examined,
\* details first, and the response is built
AllSettled ==
  /\ trk.op = "adapter"
  /\ trk.pc = "both"
  /\ trk.details.state \in {"value", "error"}
  /\ trk.trip.state \in {"value", "error"}
  /\ LET d == trk.details
         t == trk.trip
         thrown == IF d.state = "error" /\ ~Tolerated(d) THEN d
                   ELSE IF t.state = "error" /\ ~Tolerated(t) THEN t
                   ELSE NoOutcome
     IN  IF thrown # NoOutcome
         THEN /\ trk' = Caught(trk, thrown)
              /\ blocked' = BlockedAfter(thrown, trk.ref)
         ELSE /\ trk' = [trk EXCEPT !.pc = "done",
                                    !.result = OkPayload(trk.ref, d, t)]
              /\ UNCHANGED blocked
  /\ UNCHANGED <<call, cache, now, cap, bw>>

\* the tool's handler takes the payload of adapter.track(reference) and
\* returns it as text; or the tool's own handler has returned
TrackReturn ==
  /\ trk.pc = "done"
  /\ trk' = IdleTrack
  /\ UNCHANGED <<call, cache, now, blocked, cap, bw>>

----------------------------------------------------------------------------
(* The handler of the track_shipment tool that calls the client itself      *)
(* (src/src/tools/trackShipment.ts): no blocked-reference cache, details    *)
(* and trip under Promise.all, one kind of error payload.                   *)

\* the catch block of the handler: every error becomes API_ERROR
ToolCatch(o, ref) == [Payload("API_ERROR", ref) EXCEPT !.reason = o.err]

\* the ok: true response of the handler: normalizeTrackingHistory(details, trip)
ToolOkPayload(ref, d, t) ==
  [Payload("ok", ref) EXCEPT
     !.hasDetails = TRUE,
     !.hasTrip = TRUE,
     !.packages = HasFields(d.data),
     !.history = HasFields(d.data),
     !.tripEnds = HasFields(t.data),
     !.tripPoints = HasFields(t.data)]

\* the handler up to its first await: the lookup call
ToolTrack(ref, a) ==
  /\ trk.pc = "idle"
  /\ SlotsFree
  /\ trk' = [IdleTrack EXCEPT !.op = "tool", !.pc = "search", !.ref = ref,
                              !.calls = 1]
  /\ call' = [call EXCEPT !["c1"] = Invoked(SearchUrl(ref), a)]
  /\ cache' = CacheAfterLookup({SearchUrl(ref)})
  /\ UNCHANGED <<now, blocked, cap, bw>>

\* await searchShipment(reference) settles in the handler
ToolSearchSettles(a1, a2) ==
  /\ trk.op = "tool"
  /\ trk.pc = "search"
  /\ call["c1"].pc = "done"
  /\ LET o == Outcome(call["c1"], 0)
         search == SearchShipment(o)
         t1 == Counted(trk, o)
     IN  IF search.state = "error" THEN
           /\ trk' = [t1 EXCEPT !.pc = "done",
                                !.result = ToolCatch(search, trk.ref)]
           /\ call' = [call EXCEPT !["c1"] = IdleCall]
           /\ UNCHANGED cache
         ELSE IF ~HasResult(search.data) THEN
           /\ trk' = [t1 EXCEPT !.pc = "done",
                                !.result = Payload("NOT_FOUND", trk.ref)]
           /\ call' = [call EXCEPT !["c1"] = IdleCall]
           /\ UNCHANGED cache
         ELSE IF SttOf(search.data) = "none" THEN
           /\ trk' = [t1 EXCEPT !.pc = "done", !.top = search.data,
                                !.result = Payload("INVALID_RESPONSE", trk.ref)]
           /\ call' = [call EXCEPT !["c1"] = IdleCall]
           /\ UNCHANGED cache
         ELSE BothInvoked(t1, search.data, a1, a2)
  /\ UNCHANGED <<now, blocked, cap, bw>>

\* await Promise.all([...]) resumes with both values
ToolAllResolved ==
  /\ trk.op = "tool"
  /\ trk.pc = "both"
  /\ trk.details.state = "value"
  /\ trk.trip.state = "value"
  /\ trk' = [trk EXCEPT !.pc = "done",
                        !.result = ToolOkPayload(trk.ref, trk.details, trk.trip)]
  /\ UNCHANGED <<call, cache, now, blocked, cap, bw>>

\* await Promise.all([...]) rejects with the error of the call that failed
\* (the other call, if still pending, goes on unobserved)
ToolRejected ==
  /\ trk.op = "tool"
  /\ trk.pc = "both"
  /\ \E o \in {trk.details, trk.trip} :
       /\ o.state = "error"
       /\ trk' = [trk EXCEPT !.pc = "done", !.result = ToolCatch(o, trk.ref)]
  /\ UNCHANGED <<call, cache, now, blocked, cap, bw>>

\* is the operation awaiting the call in slot c
Awaited(c) ==
  \/ trk.pc = "search" /\ c = "c1"
  \/ trk.pc = "both" /\ c = "c1" /\ trk.details.state = "pending"
  \/ trk.pc = "both" /\ c = "c2" /\ trk.trip.state = "pending"

\* a call that nobody awaits any more settles
Discard(c) ==
  /\ call[c].pc = "done"
  /\ ~Awaited(c)
  /\ call' = [call EXCEPT ![c] = IdleCall]
  /\ UNCHANGED <<cache, now, trk, blocked, cap, bw>>

NextTrack ==
  \/ \E ref \in Refs, a \in FinalAttempts : Track(ref, a)
  \/ \E ref \in Refs, a \in FinalAttempts : ToolTrack(ref, a)
  \/ \E c \in Calls : TrackSend(c)
  \/ \E c \in Calls : TrackSendFail(c)
  \/ \E c \in Calls : TrackSolve(c)
  \/ \E c \in Calls : TrackResend(c)
  \/ \E c \in Calls : TrackResendFail(c)
  \/ \E a1, a2 \in FinalAttempts : SearchSettles(a1, a2)
  \/ \E a1, a2 \in FinalAttempts : ToolSearchSettles(a1, a2)
  \/ \E rnd \in TrackRandoms : DetailsSettles(rnd)
  \/ \E rnd \in TrackRandoms : TripSettles(rnd)
  \/ AllSettled
  \/ ToolAllResolved
  \/ ToolRejected
  \/ \E c \in Calls : Discard(c)
  \/ TrackReturn
  \/ \E d \in TickSteps : Tick(d)

SpecTrack == Init /\ [][NextTrack]_vars

----------------------------------------------------------------------------
(* The puzzle solver: solveCaptcha and the solvePuzzle calls it awaits      *)
(* together.  A solvePuzzle call is suspended at `await computeHash(...)`;  *)
(* the calls of one challenge take their steps in any order.                *)

\* solvePuzzle(puzzle) up to its first await: calculateTarget, then the
\* length check of computeHash for nonce 0
StartSolve(p) ==
  IF TooShortForTarget(p)
  THEN [NoSolver EXCEPT !.pc = "failed",
                        !.error = "Puzzle data too short - need at least 15 bytes"]
  ELSE IF TooShortToHash(p)
  THEN [NoSolver EXCEPT !.pc = "failed", !.target = CalculateTarget(p),
                        !.error = "Puzzle data too short - need at least 32 bytes"]
  ELSE [NoSolver EXCEPT !.pc = "hash", !.target = CalculateTarget(p)]

RECURSIVE FailedFrom(_, _)
\* the calls i.. that have thrown, in the order of their index
FailedFrom(solvers, i) ==
  IF i > Len(solvers) THEN <<>>
  ELSE IF solvers[i].pc = "failed" THEN <<i>> \o FailedFrom(solvers, i + 1)
  ELSE FailedFrom(solvers, i + 1)

\* solveCaptcha(puzzleHeader) up to `await Promise.all(...)`, or to the throw
\* of `Failed to solve CAPTCHA: ${error.message}`
SolveCaptchaCall(h) ==
  /\ cap.pc = "idle"
  /\ LET parsed == ParsePuzzle(h)
         puzzles == parsed.puzzles
         solvers == [i \in 1..Len(puzzles) |-> StartSolve(puzzles[i].puzzle)]
     IN  cap' =
           IF parsed.error # "none"
           THEN [IdleCaptcha EXCEPT !.pc = "done", !.header = h, !.error = parsed.error]
           ELSE IF Len(puzzles) = 0
           THEN [IdleCaptcha EXCEPT !.pc = "done", !.header = h, !.error = "Empty puzzle"]
           ELSE [IdleCaptcha EXCEPT !.pc = "all", !.header = h, !.puzzles = puzzles,
                                    !.solvers = solvers,
                                    !.settled = FailedFrom(solvers, 1)]
  /\ UNCHANGED <<call, cache, now, trk, blocked, bw>>

\* the hashes of the pair (p, nonce): the one computed before, if any
HashesOf(p, nonce) ==
  LET known == {e \in cap.hashes : e.puzzle = p /\ e.nonce = nonce}
  IN  IF known = {} THEN HashValues ELSE {e.hash : e \in known}

\* every call reading the payload of the first descriptor
PuzzleOfFirst(i) == cap.puzzles[1].puzzle

\* the payload that solvePuzzle call i was given: puzzles.map(async ({ jwt, puzzle }) => ...)
PuzzleOf(i) == cap.puzzles[i].puzzle

\* one turn of the loop of solvePuzzle call i: computeHash has resolved with
\* `hash`; the comparison, nonce++ and the safety limit
HashStep(i, hash) ==
  /\ cap.pc \in {"all", "done"}
  /\ i \in DOMAIN cap.solvers
  /\ cap.solvers[i].pc = "hash"
  /\ LET s == cap.solvers[i]
         p == PuzzleOf(i)
         next == NextNonce(s.nonce)
         after ==
           IF hash < s.target
           THEN [s EXCEPT !.pc = "done",
                          !.solution = Base64OfBytes(NumberToInt8Array(s.nonce))]
           ELSE IF PastSafetyLimit(next)
           THEN [s EXCEPT !.pc = "failed", !.nonce = next,
                          !.error = "Could not find solution within safe integer range"]
           ELSE [s EXCEPT !.nonce = next]
     IN  /\ hash \in HashesOf(p, s.nonce)
         /\ cap' = [cap EXCEPT
                      !.solvers[i] = after,
                      !.settled = IF after.pc = "hash" THEN @ ELSE Append(@, i),
                      !.hashes = @ \cup {[puzzle |-> p, nonce |-> s.nonce, hash |-> hash]}]
  /\ UNCHANGED <<call, cache, now, trk, blocked, bw>>

\* an array of the solutions in the order in which the calls settled
SolutionsAsSettled(puzzles, solvers, settled) ==
  [k \in 1..Len(settled) |->
     [jwt |-> puzzles[settled[k]].jwt, solution |-> solvers[settled[k]].solution]]

\* the array Promise.all resolves with: the i-th value is that of the i-th
\* call, whenever it settled
Solutions(puzzles, solvers, settled) ==
  [i \in 1..Len(puzzles) |->
     [jwt |-> puzzles[i].jwt, solution |-> solvers[i].solution]]

\* an encoding that writes the token under the key "token"
EncodeSolutionsTokenKey(solutions) ==
  [i \in 1..Len(solutions) |->
     <<<<"token", solutions[i].jwt>>, <<"solution", solutions[i].solution>>>>]

\* Buffer.from(JSON.stringify(solutions), "utf-8").toString("base64"), as the
\* JSON array the text stands for: the members of each object in the order
\* they were written
EncodeSolutions(solutions) ==
  [i \in 1..Len(solutions) |->
     <<<<"jwt", solutions[i].jwt>>, <<"solution", solutions[i].solution>>>>]

\* a Promise.all that resumes with the first solution
AnyDone(solvers) == \E i \in DOMAIN solvers : solvers[i].pc = "done"

\* Promise.all fulfils when every promise it was given has fulfilled
AllDone(solvers) == \A i \in DOMAIN solvers : solvers[i].pc = "done"

\* typeof item[key] === "string": the object has the member, written from a
\* string
HasStringMember(item, key) == \E k \in DOMAIN item : item[k][1] = key

\* validateSolutionFormat(solution), on the JSON array the text stands for
ValidateSolutionFormat(credential) ==
  \A i \in DOMAIN credential :
    /\ HasStringMember(credential[i], "jwt")
    /\ HasStringMember(credential[i], "solution")

\* await Promise.all(...) resumes with every solution; the credential
AllFulfilled ==
  /\ cap.pc = "all"
  /\ AllDone(cap.solvers)
  /\ cap' = [cap EXCEPT
               !.pc = "done",
               !.credential =
                  EncodeSolutions(Solutions(cap.puzzles, cap.solvers, cap.settled))]
  /\ UNCHANGED <<call, cache, now, trk, blocked, bw>>

\* await Promise.all(...) rejects with the error of the call that threw
\* first; the other calls go on
Rejected ==
  /\ cap.pc = "all"
  /\ \E k \in DOMAIN cap.settled :
       /\ cap.solvers[cap.settled[k]].pc = "failed"
       /\ \A j \in 1..(k - 1) : cap.solvers[cap.settled[j]].pc # "failed"
       /\ cap' = [cap EXCEPT !.pc = "done",
                             !.error = cap.solvers[cap.settled[k]].error]
  /\ UNCHANGED <<call, cache, now, trk, blocked, bw>>

\* the caller has taken the credential or the error
CaptchaReturn ==
  /\ cap.pc = "done"
  /\ cap' = IdleCaptcha
  /\ UNCHANGED <<call, cache, now, trk, blocked, bw>>

NextSolve ==
  \/ \E h \in Headers : SolveCaptchaCall(h)
  \/ \E i \in DOMAIN cap.solvers, hash \in HashValues : HashStep(i, hash)
  \/ AllFulfilled
  \/ Rejected
  \/ CaptchaReturn

SpecSolve == Init /\ [][NextSolve]_vars

----------------------------------------------------------------------------
(* The browser worker: track(), initialize(), processQueue() and shutdown()  *)
(* of one BrowserWorker.  A call gives up control only at an await, so a     *)
(* step runs from one await to the next.                                     *)

\* age < this.cacheTTL
FreshResult(stamp) == now - stamp < cacheTTL

\* a processQueue that starts a loop whenever there is a job
BusyWhenNoJob(processing, queue) == queue = <<>>

\* if (this.processing || this.queue.length === 0) return
Busy(processing, queue) == processing \/ queue = <<>>

\* a loop that gives up after its first job
DrainedAlways(queue) == TRUE

\* the loop condition of processQueue is false: no job is left
Drained(queue) == queue = <<>>

\* const job = this.queue.shift(); this.executeTracking(job.reference) up to
\* its first await: the call throws at once if there is no driver
StartJob(w) ==
  LET j == Head(w.queue)
  IN  [w EXCEPT !.queue = Tail(w.queue),
                !.running = w.running \cup {j},
                !.started = Append(w.started, j),
                !.job[j].pc = "running",
                !.job[j].live = w.driver # "null"]

\* this.queue.push({reference, resolve, reject}); this.processQueue(), up to
\* the first await of processQueue
Push(w, t) ==
  LET pushed == [w EXCEPT !.queue = Append(w.queue, t),
                          !.enqueued = Append(w.enqueued, t),
                          !.job[t].pc = "queued"]
  IN  IF Busy(pushed.processing, pushed.queue)
      THEN pushed
      ELSE StartJob([pushed EXCEPT !.processing = TRUE])

\* track(reference) up to its first await or its return
WorkerTrack(t, ref) ==
  /\ bw.job[t].pc = "idle"
  /\ LET cached == bw.cache[ref]
         asked == [bw EXCEPT !.job[t].ref = ref]
         missed == [asked EXCEPT !.cache[ref] = NoStamp]
     IN  bw' =
           IF cached # NoStamp /\ FreshResult(cached)
           THEN [asked EXCEPT !.job[t].pc = "done",
                              !.job[t].outcome = "cached"]
           ELSE IF bw.driver = "null"
           THEN [missed EXCEPT !.job[t].pc = "build"]
           ELSE IF ~bw.initialized
           THEN [missed EXCEPT !.job[t].pc = "enqueue"]
           ELSE Push(missed, t)
  /\ UNCHANGED <<call, cache, now, trk, blocked, cap>>

\* initialize(): `await new Builder()...build()` settles; the driver is
\* assigned when it fulfils, and track() rejects when it does not
BuildDone(t, ok) ==
  /\ bw.job[t].pc = "build"
  /\ bw' = IF ok
           THEN [bw EXCEPT !.driver = t, !.built = bw.built + 1,
                           !.job[t].pc = "setup"]
           ELSE [bw EXCEPT !.job[t].pc = "done", !.job[t].outcome = "failed"]
  /\ UNCHANGED <<call, cache, now, trk, blocked, cap>>

\* initialize(): the CDP connection, the navigation and the waits settle
SetupDone(t, ok) ==
  /\ bw.job[t].pc = "setup"
  /\ bw' = IF ok
           THEN [bw EXCEPT !.initialized = TRUE, !.job[t].pc = "enqueue"]
           ELSE [bw EXCEPT !.job[t].pc = "done", !.job[t].outcome = "failed"]
  /\ UNCHANGED <<call, cache, now, trk, blocked, cap>>

\* track() resumes after `await this.initialize()` and queues the request
Enqueue(t) ==
  /\ bw.job[t].pc = "enqueue"
  /\ bw' = Push(bw, t)
  /\ UNCHANGED <<call, cache, now, trk, blocked, cap>>

\* processQueue resumes after `await this.executeTracking(...)`: the result
\* is cached and the job resolved, or the job is rejected; then the next job
\* is taken, or the loop ends
ExecDone(t, ok) ==
  /\ t \in bw.running
  /\ ok => bw.job[t].live
  /\ LET ref == bw.job[t].ref
         settled ==
           [bw EXCEPT !.running = bw.running \ {t},
                      !.job[t].pc = "done",
                      !.job[t].settled = bw.job[t].settled + 1,
                      !.job[t].outcome = IF ok THEN "resolved" ELSE "rejected",
                      !.cache[ref] = IF ok THEN now ELSE bw.cache[ref],
                      !.written = IF ok THEN bw.written \cup {t}
                                        ELSE bw.written]
     IN  bw' = IF Drained(settled.queue)
               THEN [settled EXCEPT !.processing = FALSE]
               ELSE StartJob(settled)
  /\ UNCHANGED <<call, cache, now, trk, blocked, cap>>

\* shutdown() up to `await this.driver.quit()`
Shutdown ==
  /\ ~bw.quitting
  /\ bw.driver # "null"
  /\ bw' = [bw EXCEPT !.quitting = TRUE]
  /\ UNCHANGED <<call, cache, now, trk, blocked, cap>>

\* shutdown() resumes after quit()
ShutdownDone ==
  /\ bw.quitting
  /\ bw' = [bw EXCEPT !.quitting = FALSE, !.driver = "null",
                      !.initialized = FALSE, !.built = 0]
  /\ UNCHANGED <<call, cache, now, trk, blocked, cap>>

\* clearCache()
ClearCache ==
  /\ \E ref \in WorkerRefs : bw.cache[ref] # NoStamp
  /\ bw' = [bw EXCEPT !.cache = [ref \in WorkerRefs |-> NoStamp]]
  /\ UNCHANGED <<call, cache, now, trk, blocked, cap>>

NextWorker ==
  \/ \E q \in Requests : WorkerTrack(q[1], q[2])
  \/ \E t \in Callers, ok \in BOOLEAN : BuildDone(t, ok)
  \/ \E t \in Callers, ok \in BOOLEAN : SetupDone(t, ok)
  \/ \E t \in Callers : Enqueue(t)
  \/ \E t \in Callers, ok \in BOOLEAN : ExecDone(t, ok)
  \/ Shutdown
  \/ ShutdownDone
  \/ ClearCache
  \/ \E d \in TickSteps : Tick(d)

SpecWorker == Init /\ [][NextWorker]_vars

\* some executeTracking that was started completes
ExecCompletes == \E t \in Callers, ok \in BOOLEAN : ExecDone(t, ok)

\* the proviso of the settlement claim: a pending executeTracking is not
\* left pending for ever
SpecWorkerFair == Init /\ [][NextWorker]_vars /\ WF_vars(ExecCompletes)

----------------------------------------------------------------------------
(* Claims about fetchJson *)

\* the call has just received a response to the fetch that carried the
\* solution credential, or is in a state that follows it without a new send
AfterResend(c) == call[c].resent /\ call[c].last # NoResp

\* C1: whenever the resend that carried a solution credential is answered by
\* HTTP 429, the call raises CaptchaBlockedError at once: it is finished with
\* that error, with no backoff sleep and no further send after that response.
C1_BlockedIsTerminal ==
  \A c \in Calls :
    (AfterResend(c) /\ call[c].last.status = 429)
      => /\ call[c].pc = "done"
         /\ call[c].result.outcome = "error"
         /\ call[c].result.err.kind = "CaptchaBlocked"

\* C2: whenever the resend that carried a solution credential is answered by
\* HTTP 422, the call raises CaptchaSolutionInvalidError and is finished: no
\* sleep and no send follow (after [429+challenge, 422] it ends at 2 sends).
C2_RejectedIsTerminal ==
  \A c \in Calls :
    (AfterResend(c) /\ call[c].last.status = 422)
      => /\ call[c].pc = "done"
         /\ call[c].result.outcome = "error"
         /\ call[c].result.err.kind = "CaptchaSolutionInvalid"
         /\ call[c].attempt = 0 => call[c].sends = 2 /\ call[c].sleeps = 0

\* C3: when the first response of a call is a 429 with a challenge header, the
\* challenge is solved and the resend is answered by a 2xx with a JSON body,
\* the call returns that body after exactly 2 sends, the second of which
\* carried the solution credential computed from the challenge, with no sleep.
C3_ChallengeThenSuccess ==
  \A c \in Calls :
    (AfterResend(c) /\ call[c].attempt = 0
       /\ Ok(call[c].last.status) /\ IsJson(call[c].last.body))
      => /\ call[c].pc = "done"
         /\ call[c].result.outcome = "value"
         /\ call[c].result.data = call[c].last.body
         /\ ~call[c].result.fromCache
         /\ call[c].sends = 2
         /\ call[c].sleeps = 0
         /\ call[c].sentSolution = SolveCaptcha("good")
         /\ call[c].sentSolution # "none"

\* C3 witness: a call that returned the body of the 200 that answered its
\* resend, at 2 sends
C3_Witness ==
  \E c \in Calls :
    /\ call[c].pc = "done" /\ AfterResend(c) /\ call[c].attempt = 0
    /\ call[c].last.status = 200 /\ call[c].last.body = "j2"
    /\ call[c].result.data = "j2" /\ call[c].sends = 2

\* a 4xx other than 429 and 422
IsClientError(status) ==
  status >= 400 /\ status <= 499 /\ status # 429 /\ status # 422

\* C4: a 4xx other than 429 and 422 on the first send of a call is raised
\* immediately and never retried: exactly 1 send and 0 sleeps, for every
\* retry budget.
C4_ClientErrorNotRetried ==
  \A c \in Calls :
    (call[c].sends = 1 /\ ~call[c].resent /\ IsClientError(call[c].last.status))
      => /\ call[c].pc = "done"
         /\ call[c].result.outcome = "error"
         /\ call[c].sleeps = 0

\* C5: a call that has received only 429-without-challenge and 5xx responses
\* uses one attempt counter for both kinds (one send per attempt), finishes
\* only after exactly retries + 1 sends, and then raises the rate-limit error
\* if the last response was a 429 and the server error if it was a 5xx.
C5_SharedRetryBudget ==
  \A c \in Calls :
    (call[c].sends >= 1 /\ call[c].onlyTransient)
      => /\ call[c].pc \in {"send", "sleep", "done"}
         /\ call[c].pc \in {"sleep", "done"} => call[c].sends = call[c].attempt + 1
         /\ call[c].pc = "send" => call[c].sends = call[c].attempt
         /\ call[c].pc = "done" =>
              /\ call[c].sends = call[c].retries + 1
              /\ call[c].result.outcome = "error"
              /\ call[c].last.status = 429 =>
                   /\ call[c].result.err.kind = "RateLimited"
                   /\ call[c].result.err.status = 429
              /\ call[c].last.status # 429 =>
                   /\ call[c].result.err.kind = "Http"
                   /\ call[c].result.err.status = call[c].last.status

\* C5 witness: the default budget of 3 exhausted by 4 sends, the last one
\* answered by a 429 without a challenge header
C5_Witness ==
  \E c \in Calls :
    /\ call[c].pc = "done" /\ call[c].onlyTransient
    /\ call[c].retries = DefaultRetries /\ call[c].sends = 4
    /\ call[c].sleeps = 3
    /\ call[c].last.status = 429
    /\ call[c].result.err.kind = "RateLimited"

\* the last fetch of the call rejected, and nothing was sent since
AfterNetworkFailure(c) ==
  call[c].sends >= 1 /\ call[c].last = NoResp /\ call[c].pc \in {"sleep", "done"}

\* C6, as claimed: a network failure is retried with backoff while retry
\* budget remains; only a failure on the final attempt is raised.
C6_NetworkFailureRetried ==
  \A c \in Calls :
    (AfterNetworkFailure(c) /\ call[c].pc = "done")
      => call[c].attempt = call[c].retries

\* C6, amended: a network failure whose error message contains "fetch" (for
\* the resend: the wrapped message, which ends with the URL) is raised at
\* once, whatever budget remains; any other rejection is retried with backoff
\* while budget remains and raised only on the final attempt.
C6_NetworkFailureByMessage ==
  \A c \in Calls :
    AfterNetworkFailure(c)
      => /\ call[c].lastErr.kind = (IF call[c].resent THEN "SolveFailed" ELSE "Network")
         /\ call[c].lastErr.mark =>
              /\ call[c].pc = "done"
              /\ call[c].result.outcome = "error"
              /\ call[c].result.err = call[c].lastErr
         /\ ~call[c].lastErr.mark =>
              (call[c].pc = "done" <=> call[c].attempt = call[c].retries)

\* C6 witness: "fetch failed" on the first attempt of a call with budget
\* left, raised without a sleep
C6_Witness ==
  \E c \in Calls :
    /\ AfterNetworkFailure(c) /\ call[c].pc = "done"
    /\ call[c].attempt = 0 /\ call[c].retries = DefaultRetries
    /\ call[c].sleeps = 0 /\ call[c].sends = 1
    /\ call[c].result.err.kind = "Network" /\ call[c].result.err.mark

\* C7: if decoding or solving the challenge fails, the call terminates with
\* that failure: no resend, no backoff sleep and no further send follow the
\* challenge response.
C7_SolveFailureIsTerminal ==
  \A c \in Calls :
    (/\ call[c].sends >= 1 /\ ~call[c].resent /\ call[c].last.status = 429
     /\ call[c].last.puzzle \in {"badformat", "short"}
     /\ call[c].pc # "solve")
      => /\ call[c].pc = "done"
         /\ call[c].result.outcome = "error"
         /\ call[c].result.err.kind = "SolveFailed"

\* C8: whenever a 2xx body fails to parse as JSON, on the first send or on
\* the resend, the call terminates with a parse error: no further send, no
\* sleep, and nothing is in the response cache for its URL.
C8_ParseFailureIsTerminal ==
  \A c \in Calls :
    (call[c].sends >= 1 /\ call[c].last # NoResp
       /\ Ok(call[c].last.status) /\ ~IsJson(call[c].last.body))
      => /\ call[c].pc = "done"
         /\ call[c].result.outcome = "error"
         /\ call[c].result.err.kind \in {"ParseJson", "SolveFailed"}
         /\ cache[call[c].url] = NoEntry

\* C9: a call for URL u that starts while the response cache holds an entry
\* for u stored less than 60000 ms ago returns the stored value with zero
\* sends and leaves the entry in place; a result served from the cache never
\* involved a send.
C9_FreshEntryServed ==
  [][\A c \in Calls, u \in URLs :
       (/\ call[c].pc = "idle" /\ call'[c].pc # "idle" /\ call'[c].url = u
        /\ cache[u] # NoEntry /\ now - cache[u].ts < 60000)
         => /\ call'[c].pc = "done"
            /\ call'[c].result.outcome = "value"
            /\ call'[c].result.data = cache[u].data
            /\ call'[c].result.fromCache
            /\ call'[c].sends = 0
            /\ cache' = cache]_vars

\* C9 witness: a call served from an entry that is 59999 ms old
C9_Witness ==
  \E c \in Calls :
    /\ call[c].pc = "done" /\ call[c].result.fromCache /\ call[c].sends = 0
    /\ cache[call[c].url] # NoEntry
    /\ call[c].result.data = cache[call[c].url].data
    /\ now - cache[call[c].url].ts = 59999

\* C10: a success obtained on the resend after a challenge is stored in the
\* response cache like a first-send success: when the call returns, the cache
\* holds the returned body for its URL (so a second call within 60 s is
\* served without a send).
C10_ResendSuccessCached ==
  \A c \in Calls :
    (/\ call[c].pc = "done" /\ AfterResend(c)
     /\ Ok(call[c].last.status) /\ call[c].result.outcome = "value")
      => /\ cache[call[c].url] # NoEntry
         /\ cache[call[c].url].data = call[c].result.data

----------------------------------------------------------------------------
\* call c receives, in this step, the response to the first send of an attempt
ReceivesFirst(c) ==
  /\ call[c].pc = "send"
  /\ call'[c].sends = call[c].sends + 1
  /\ call'[c].last # NoResp

\* C11: under every interleaving of concurrent calls, every change of the
\* response-cache entry of a URL is either the removal of the entry or the
\* write, by a call for that URL, of the parsed JSON body of the 2xx response
\* the call receives in that very step, stamped with the current time; the
\* entry is the last such write, and the call returns the value it stored.
C11_CacheHoldsReceivedSuccess ==
  [][\A u \in URLs :
       cache'[u] # cache[u] =>
         \/ cache'[u] = NoEntry
         \/ \E c \in Calls :
              /\ ReceivesFirst(c)
              /\ call[c].url = u
              /\ Ok(call'[c].last.status)
              /\ IsJson(call'[c].last.body)
              /\ cache'[u] = [data |-> call'[c].last.body, ts |-> now]
              /\ call'[c].pc = "done"
              /\ call'[c].result.outcome = "value"
              /\ call'[c].result.data = call'[c].last.body]_vars

\* two calls for one URL have both completed with a success from upstream,
\* with different bodies, and the entry holds one of them
C11_Witness ==
  \E c, d \in Calls :
    /\ c # d
    /\ call[c].url = call[d].url
    /\ call[c].pc = "done" /\ call[d].pc = "done"
    /\ call[c].result.outcome = "value" /\ ~call[c].result.fromCache
    /\ call[d].result.outcome = "value" /\ ~call[d].result.fromCache
    /\ ~call[c].resent /\ ~call[d].resent
    /\ call[c].last.body = "j1" /\ call[d].last.body = "j2"
    /\ cache[call[c].url].data = "j2"

----------------------------------------------------------------------------
\* call c sends, in this step, the request that carries the credential
SendsResend(c) ==
  /\ call[c].pc = "resend"
  /\ call'[c].sends = call[c].sends + 1

\* the requests a call has sent with a credential: all its sends but the first
\* send of each attempt (taken at a state where the call is not about to send)
CredentialSends(s) == s.sends - (s.attempt + 1)

\* C14: a send carries the Captcha-Solution credential only if it is the
\* resend that directly follows, in the same call, a 429 response with a
\* challenge header, and the credential is the one computed from that header;
\* the first send of an attempt (a backoff retry included) carries none; and a
\* call sends at most one request with a credential.
C14_CredentialOnlyOnOneResend ==
  [][\A c \in SeqCalls :
       call'[c].sends = call[c].sends + 1 =>
         /\ call'[c].sentSolution # "none" =>
               /\ SendsResend(c)
               /\ call[c].last.status = 429
               /\ call[c].last.puzzle # "none"
               /\ call'[c].sentSolution = SolveCaptcha(call[c].last.puzzle)
         /\ call[c].pc = "send" => call'[c].sentSolution = "none"
         /\ CredentialSends(call'[c]) <= 1]_vars

\* the part of C14 that is about where the credential comes from
C14_CredentialFromChallenge ==
  [][\A c \in SeqCalls :
       call'[c].sends = call[c].sends + 1 =>
         /\ call'[c].sentSolution # "none" =>
               /\ SendsResend(c)
               /\ call[c].last.status = 429
               /\ call[c].last.puzzle # "none"
               /\ call'[c].sentSolution = SolveCaptcha(call[c].last.puzzle)
         /\ call[c].pc = "send" => call'[c].sentSolution = "none"]_vars

----------------------------------------------------------------------------
\* after the step, call c is on the rate-limit path: the 429 error is recorded
\* and the call sleeps before the next attempt, or throws it on the last one
OnRateLimitPath(c) ==
  /\ call'[c].pc \in {"sleep", "done"}
  /\ call'[c].lastErr.kind = "RateLimited"

\* after the step, call c is on the challenge path: it awaits solveCaptcha
\* (which decodes and solves, and whose success is followed by the resend);
\* a challenge header that is present without a value ends the path at once
\* with CaptchaBlockedError
OnChallengePath(c) ==
  IF call'[c].last.puzzle = "empty"
  THEN call'[c].pc \in {"sleep", "done"} /\ call'[c].lastErr.kind = "CaptchaBlocked"
  ELSE call'[c].pc = "solve"

----------------------------------------------------------------------------
\* call c receives, in this step, a response (to a first send or to a resend)
Receives(c) ==
  /\ call'[c].sends = call[c].sends + 1
  /\ call'[c].last # NoResp

\* C16: every 422, whatever its body and whether it answers a first send or
\* a resend, makes the call throw CaptchaSolutionInvalidError and never the
\* generic HTTP client error.
C16_Every422IsSolutionRejected ==
  [][\A c \in SeqCalls :
       Receives(c) /\ call'[c].last.status = 422 =>
         /\ call'[c].pc \in {"sleep", "done"}
         /\ call'[c].lastErr.kind = "CaptchaSolutionInvalid"]_vars

----------------------------------------------------------------------------
\* track(ref) is called in this step
TrackCalled(ref) ==
  /\ trk.pc = "idle"
  /\ trk'.pc # "idle"
  /\ trk'.op = "adapter"
  /\ trk'.ref = ref

----------------------------------------------------------------------------
\* the calls whose errors can reach the catch block of track() in this step
ErrorsInReach ==
  IF trk.pc = "search" THEN {Outcome(call["c1"], 0)}
  ELSE IF trk.pc = "both" THEN {trk.details, trk.trip}
  ELSE {}

\* the call ended in CaptchaBlockedError after a challenge was solved and
\* resent and the resend was answered by a challenge again
BlockedAfterResentChallenge(o) ==
  /\ o.state = "error"
  /\ o.err.kind = "CaptchaBlocked"
  /\ o.resent
  /\ o.last.status = 429
  /\ o.last.puzzle # "none"

\* C13: a blocked record is written for a reference only when a call of the
\* tracking operation for that reference received a challenge, solved it,
\* resent, and got a challenge again as the answer to the resend.
C13_RecordOnlyAfterResentChallenge ==
  [][\A ref \in Refs :
       blocked'[ref] # blocked[ref] =>
         /\ trk.ref = ref
         /\ \E o \in ErrorsInReach : BlockedAfterResentChallenge(o)]_vars

----------------------------------------------------------------------------
\* the operation has awaited details and trip and ends in this step
EndsAfterBoth == trk.pc = "both" /\ trk'.pc = "done"

\* the call failed with a 404
NotFound404(o) == o.state = "error" /\ o.err.status = 404

\* C17: when the lookup succeeded and exactly one of details and trip fails
\* with 404, the operation returns an ok result that carries everything the
\* other response gives: tracking history and package data from details;
\* start, end and trip points from trip.
C17_OneNotFoundKeepsTheOther ==
  [][EndsAfterBoth =>
       /\ trk.details.state = "value" /\ NotFound404(trk.trip) =>
            /\ trk'.result.kind = "ok"
            /\ trk'.result.history = HasFields(trk.details.data)
            /\ trk'.result.packages = HasFields(trk.details.data)
       /\ trk.trip.state = "value" /\ NotFound404(trk.details) =>
            /\ trk'.result.kind = "ok"
            /\ trk'.result.tripEnds = HasFields(trk.trip.data)
            /\ trk'.result.tripPoints = HasFields(trk.trip.data)]_vars

----------------------------------------------------------------------------
\* the call ended in Blocked, SolutionRejected, rate-limit exhaustion or a
\* server error
BoundaryFailure(o) ==
  /\ o.state = "error"
  /\ \/ o.err.kind \in {"CaptchaBlocked", "CaptchaSolutionInvalid", "RateLimited"}
     \/ o.err.kind = "Http" /\ o.err.status >= 500 /\ o.err.status <= 599

\* C18: when the details call or the trip call ends in Blocked,
\* SolutionRejected, rate-limit exhaustion or a server error, the operation
\* ends with an error payload, never with an ok result that treats the call
\* as an absent resource.
C18_BoundaryFailurePropagates ==
  [][EndsAfterBoth =>
       \A o \in {trk.details, trk.trip} :
         BoundaryFailure(o) => trk'.result.kind \in {"blocked", "CAPTCHA_SOLUTION_INVALID", "API_ERROR"}]_vars

----------------------------------------------------------------------------
\* C19: no failure is swallowed except a 404 of details or trip: an error of
\* the lookup call (a 4xx in particular) ends the operation with an error
\* payload, never with NOT_FOUND or another no-data value, and an error of
\* details or trip other than a 404 ends it with an error payload too.
C19_OnlyOptional404Swallowed ==
  [][/\ trk.pc = "search" /\ trk'.pc # "search"
        /\ call["c1"].result.outcome = "error" =>
          /\ trk'.pc = "done"
          /\ trk'.result.kind \in {"blocked", "CAPTCHA_SOLUTION_INVALID", "API_ERROR"}
     /\ EndsAfterBoth =>
          \A o \in {trk.details, trk.trip} :
            o.state = "error" /\ ~NotFound404(o) =>
              trk'.result.kind \in {"blocked", "CAPTCHA_SOLUTION_INVALID", "API_ERROR"}]_vars

\* the part of C19 that is about the lookup call
C19_LookupErrorSurfaced ==
  [][trk.pc = "search" /\ trk'.pc # "search"
       /\ call["c1"].result.outcome = "error" =>
         /\ trk'.pc = "done"
         /\ trk'.result.kind \in {"blocked", "CAPTCHA_SOLUTION_INVALID", "API_ERROR"}]_vars

----------------------------------------------------------------------------
\* the payloads track() can resolve with
StructuredKinds ==
  {"ok", "NOT_FOUND", "INVALID_RESPONSE", "CAPTCHA_SOLUTION_INVALID",
   "blocked", "API_ERROR"}

\* C20: track() never rejects: whatever its fetchJson calls return or throw,
\* it ends with one of its structured payloads.
C20_TrackNeverRejects ==
  /\ trk.op = "adapter" /\ trk.pc = "done" => trk.result.kind \in StructuredKinds
  /\ trk.result.kind # "rejected"

\* track() has ended with API_ERROR for a network failure of the trip call
\* on top of a details call that was answered
C20_Witness ==
  /\ trk.op = "adapter"
  /\ trk.pc = "done"
  /\ trk.calls = 3
  /\ trk.details.state = "value"
  /\ trk.trip.state = "error"
  /\ trk.trip.err.kind = "Network"
  /\ trk.result.kind = "API_ERROR"
  /\ trk.result.reason = trk.trip.err

----------------------------------------------------------------------------
\* the bounds b * 2^n <= d <= 1.3 * b * 2^n, in integers
WithinBackoff(d, b, n) ==
  /\ b * Pow2(n) <= d
  /\ 10 * d <= 13 * b * Pow2(n)

\* C29: every wait of a call with base delay b is taken after a failed send
\* of an attempt n below the retry budget and lasts between b * 2^n and
\* 1.3 * b * 2^n ms; the waits taken equal the retries performed (one per
\* attempt that was followed by another), and a call that has ended took no
\* wait after its final send.
C29_BackoffDelays ==
  \A c \in Calls :
    LET s == call[c] IN
    /\ s.pc = "sleep" =>
         /\ s.attempt < s.retries
         /\ WithinBackoff(s.delay, s.retryDelayMs, s.attempt)
         /\ s.sleeps = s.attempt + 1
    /\ s.pc \in {"send", "solve", "resend", "done"} =>
         /\ s.sleeps = s.attempt
         /\ s.delay = 0

\* C29 witness: the third wait of a call with the default base delay and
\* budget, after a rate-limit response: 4000 ms plus jitter
C29_Witness ==
  \E c \in Calls :
    /\ call[c].pc = "sleep"
    /\ call[c].retries = 3
    /\ call[c].retryDelayMs = 1000
    /\ call[c].attempt = 2
    /\ call[c].last.status = 429
    /\ call[c].last.puzzle = "none"
    /\ call[c].delay > 4000
    /\ call[c].sleeps = 3

\* C30: a call that starts for a URL whose cache entry is 60000 ms old or
\* older is not served that entry: the entry is removed in the same step,
\* before the first send, and whatever a call is served from the cache is
\* younger than 60000 ms; a call that removed a stale entry and then failed
\* ended with the error, and the entry is gone for later calls.
C30_StaleEntryNeverServed ==
  [][\A c \in Calls :
       /\ (call[c].pc = "idle" /\ call'[c].pc # "idle")
            => LET u == call'[c].url IN
               /\ (cache[u] # NoEntry /\ now - cache[u].ts >= 60000)
                    => /\ cache'[u] = NoEntry
                       /\ call'[c].pc = "send"
                       /\ call'[c].sends = 0
                       /\ ~call'[c].result.fromCache
               /\ call'[c].result.fromCache
                    => /\ cache[u] # NoEntry
                       /\ now - cache[u].ts < 60000
                       /\ call'[c].result.data = cache[u].data
       /\ (call[c].pc \notin {"idle", "done"} /\ call'[c].pc = "done")
            => /\ ~call'[c].result.fromCache
               /\ (call[c].evicted /\ call'[c].result.outcome = "error")
                     => cache'[call[c].url] = NoEntry]_vars

\* C30 witness: a call that found an entry exactly 60000 ms old, removed it
\* and then failed; the cache holds nothing for its URL
C30_Witness ==
  \E c \in Calls :
    /\ call[c].pc = "done"
    /\ call[c].evicted
    /\ call[c].result.outcome = "error"
    /\ call[c].sends >= 1
    /\ cache[call[c].url] = NoEntry
    /\ now = 60000

----------------------------------------------------------------------------
\* the target the difficulty bytes stand for: payload[14] * 2^(8 * (payload[13] - 3))
ClaimedTarget(p) == p.b14 * Pow2(8 * (p.b13 - 3))

\* the double hashes computed in the solveCaptcha call cp for the pair (p, n)
HashKnown(cp, p, n) == {e.hash : e \in {x \in cp.hashes : x.puzzle = p /\ x.nonce = n}}

\* the nonce that a returned solution stands for
NonceOf(solution) == LittleEndian(solution, 1)

\* n is the smallest nonce whose double hash with p is below target: it is
\* below, and the hash of every smaller nonce was computed and is not
SmallestBelow(cp, p, n, target) ==
  /\ HashKnown(cp, p, n) # {}
  /\ \A h \in HashKnown(cp, p, n) : h < target
  /\ \A m \in 0..(n - 1) :
       /\ HashKnown(cp, p, m) # {}
       /\ \A h \in HashKnown(cp, p, m) : ~(h < target)

\* C21: a solvePuzzle call on a payload of 32 bytes or more returns the
\* smallest nonce n >= 0 with doubleHash(n, payload) < target(payload), where
\* the target is payload[14] * 2^(8 * (payload[13] - 3)); it returns one
\* whenever some nonce satisfies the inequality; and two calls on the same
\* payload return the same nonce.
C21_SmallestNonce ==
  \A i \in DOMAIN cap.solvers :
    LET s == cap.solvers[i]
        p == cap.puzzles[i].puzzle
    IN  p.len >= 32 /\ p.b13 >= 3 =>
          /\ s.pc = "done" => SmallestBelow(cap, p, NonceOf(s.solution), ClaimedTarget(p))
          /\ s.pc = "failed" =>
               \A e \in cap.hashes : e.puzzle = p => ~(e.hash < ClaimedTarget(p))
          /\ \A j \in DOMAIN cap.solvers :
               (cap.puzzles[j].puzzle = p /\ s.pc = "done" /\ cap.solvers[j].pc = "done")
                 => cap.solvers[j].solution = s.solution

\* C22: for every payload of 15 bytes or more whose byte at offset 13 is 3 or
\* more, calculateTarget returns payload[14] * 2^(8 * (payload[13] - 3)):
\* 655360 for the bytes 5 and 10, payload[14] itself for an offset-13 byte of 3.
C22_TargetFormula ==
  \A i \in DOMAIN cap.solvers :
    LET p == cap.puzzles[i].puzzle
    IN  p.len >= 15 /\ p.b13 >= 3 => cap.solvers[i].target = ClaimedTarget(p)

\* C23: the target computed for a decoded payload is never negative, whatever
\* the bytes at offsets 13 and 14 (128 and above included).
C23_TargetNonNegative ==
  \A i \in DOMAIN cap.solvers :
    cap.puzzles[i].puzzle.len >= 15 => cap.solvers[i].target >= 0

\* the errors of calculateTarget and of computeHash for a short payload
TargetError == "Puzzle data too short - need at least 15 bytes"

HashInputError == "Puzzle data too short - need at least 32 bytes"

\* C24: solving a payload shorter than 15 bytes fails with the target error,
\* solving one of 15 to 31 bytes with the hash-input error; no hash is
\* computed for it, no nonce is returned, and the solveCaptcha call that
\* decoded it ends with an error and without a credential.
C24_ShortPayloadFails ==
  /\ \A i \in DOMAIN cap.solvers :
       LET s == cap.solvers[i]
           p == cap.puzzles[i].puzzle
       IN  /\ p.len < 15 =>
                s.pc = "failed" /\ s.error = TargetError /\ s.solution = <<>>
           /\ p.len >= 15 /\ p.len <= 31 =>
                s.pc = "failed" /\ s.error = HashInputError /\ s.solution = <<>>
           /\ p.len < 32 =>
                /\ \A e \in cap.hashes : e.puzzle # p
                /\ cap.credential = <<>>
                /\ cap.pc = "done" => cap.error # "none"

\* C24 witness: a challenge of a 14-byte and a 31-byte payload has ended
\* with the target error of the first
C24_Witness ==
  /\ cap.pc = "done"
  /\ Len(cap.puzzles) = 2
  /\ cap.puzzles[1].puzzle.len = 14
  /\ cap.puzzles[2].puzzle.len = 31
  /\ cap.solvers[2].error = HashInputError
  /\ cap.error = TargetError
  /\ cap.credential = <<>>

\* C25: every turn of the search of a solvePuzzle call on a payload of 32
\* bytes or more either returns the nonce it tried, whose hash is below the
\* target while that of every smaller nonce is not, or moves to the next
\* nonce, which is at most the safety limit, or, the next nonce being past
\* the limit, throws; so the call ends within limit + 1 turns, also for a
\* target of 0 or below.
C25_SearchTerminates ==
  [][\A i \in DOMAIN cap.solvers :
       (\E hash \in HashValues : HashStep(i, hash)) =>
         LET s == cap.solvers[i]
             t == cap'.solvers[i]
             p == cap.puzzles[i].puzzle
         IN  /\ p.len >= 32
             /\ s.nonce <= MaxSafeNonce
             /\ \/ /\ t.pc = "done"
                   /\ NonceOf(t.solution) = s.nonce
                   /\ SmallestBelow(cap', p, s.nonce, s.target)
                \/ /\ t.pc = "hash"
                   /\ t.nonce = s.nonce + 1
                   /\ t.nonce <= MaxSafeNonce
                \/ /\ t.pc = "failed"
                   /\ s.nonce = MaxSafeNonce
                   /\ t.nonce = MaxSafeNonce + 1
                   /\ t.solution = <<>>
                   /\ t.error = "Could not find solution within safe integer range"]_vars

\* C25 witness: the search for a target of 0 has thrown after trying every
\* nonce up to the limit
C25_Witness ==
  \E i \in DOMAIN cap.solvers :
    /\ cap.puzzles[i].puzzle.len >= 32
    /\ cap.solvers[i].target = 0
    /\ cap.solvers[i].pc = "failed"
    /\ cap.solvers[i].nonce = MaxSafeNonce + 1
    /\ \A n \in 0..MaxSafeNonce : HashKnown(cap, cap.puzzles[i].puzzle, n) # {}

\* the fragments of header h that are tokens: neither empty nor white space
TokensOf(h) == SelectSeq(h, LAMBDA f : f.kind = "token")

\* the errors with which decoding fails
DecodeErrors ==
  {"Invalid JWT format", "Missing JWT payload", "SyntaxError",
   "Missing or invalid puzzle field in JWT payload", "Empty puzzle"}

\* decoding header h in the call cp failed as a whole
DecodeFailed(cp) ==
  /\ cp.pc = "done"
  /\ cp.error \in DecodeErrors
  /\ cp.puzzles = <<>>
  /\ cp.solvers = <<>>
  /\ cp.credential = <<>>

\* decoding gave one descriptor per token, in order
DecodedAll(cp) ==
  LET toks == TokensOf(cp.header)
  IN  /\ Len(cp.puzzles) = Len(toks)
      /\ \A i \in 1..Len(toks) :
           /\ cp.puzzles[i].jwt = [toks[i] EXCEPT !.pad = FALSE]
           /\ cp.puzzles[i].puzzle = toks[i].bytes
      /\ cp.error \notin DecodeErrors

\* C26, as claimed: decoding fails as a whole if no token is left, if a token
\* does not have exactly three segments or if a token's payload field is
\* missing, and otherwise returns one descriptor per token, in order.
C26_DecodeAsClaimed ==
  cap.pc # "idle" =>
    LET toks == TokensOf(cap.header)
        fails ==
          \/ Len(toks) = 0
          \/ \E i \in 1..Len(toks) : toks[i].segs # 3
          \/ \E i \in 1..Len(toks) :
               toks[i].part \in {"noSegment", "noField", "emptyString"}
    IN  IF fails THEN DecodeFailed(cap) ELSE DecodedAll(cap)

\* C26, amended: decoding fails as a whole if no token is left after dropping
\* the empty and the white-space fragments, if a token does not have exactly
\* three segments, if its payload segment is empty or is not JSON, or if the
\* puzzle field of the payload is missing, empty or not a string; otherwise
\* it returns one descriptor per token, in order, with the token trimmed.
C26_DecodeFailsOrAll ==
  cap.pc # "idle" =>
    LET toks == TokensOf(cap.header)
        fails ==
          \/ Len(toks) = 0
          \/ \E i \in 1..Len(toks) : toks[i].segs # 3
          \/ \E i \in 1..Len(toks) :
               toks[i].part \in {"noSegment", "notJson", "noField", "notString",
                                 "emptyString"}
    IN  IF fails THEN DecodeFailed(cap) ELSE DecodedAll(cap)

\* C26 witness: a challenge whose first token decodes and whose second token
\* carries JSON that is not an object with a puzzle string has failed as a
\* whole
C26_Witness ==
  /\ cap.pc = "done"
  /\ Len(cap.header) = 2
  /\ cap.header[1].kind = "token" /\ cap.header[1].segs = 3
  /\ cap.header[1].part = "puzzle"
  /\ cap.header[2].part = "notString"
  /\ cap.error = "Missing or invalid puzzle field in JWT payload"
  /\ cap.puzzles = <<>>

\* C27: the credential of a solveCaptcha call that succeeded is an array with
\* one entry per token of the challenge, the i-th entry carrying the i-th
\* token as its jwt and the nonce found for the i-th payload as its
\* solution, in whatever order the solvePuzzle calls settled.
C27_CredentialMirrorsTokens ==
  (cap.pc = "done" /\ cap.error = "none") =>
    LET toks == TokensOf(cap.header)
    IN  /\ Len(cap.credential) = Len(toks)
        /\ Len(toks) >= 1
        /\ \A i \in 1..Len(toks) :
             /\ cap.credential[i][1] = <<"jwt", [toks[i] EXCEPT !.pad = FALSE]>>
             /\ cap.credential[i][2] = <<"solution", cap.solvers[i].solution>>
             /\ cap.solvers[i].pc = "done"
             /\ Len(cap.solvers[i].solution) = 8

\* C27 witness: a credential for two different tokens whose second puzzle
\* was solved before the first
C27_Witness ==
  /\ cap.pc = "done"
  /\ cap.error = "none"
  /\ Len(cap.credential) = 2
  /\ cap.settled = <<2, 1>>
  /\ cap.puzzles[1].jwt # cap.puzzles[2].jwt
  /\ cap.credential[1][1][2] = cap.puzzles[1].jwt

\* the solvePuzzle call i of cp returned the nonce that a search of its own
\* payload against its own target gives
SolvedAlone(cp, i) ==
  LET p == cp.puzzles[i].puzzle
  IN  /\ Len(cp.solvers[i].solution) = 8
      /\ SmallestBelow(cp, p, NonceOf(cp.solvers[i].solution), CalculateTarget(p))

\* C28: in every interleaving of the solvePuzzle calls of a challenge, each
\* call that returns has found the nonce that the search of its own payload
\* alone finds, a step changes the state of one call at most, and no step
\* changes a descriptor while the solveCaptcha call lasts.
C28_SolvesIndependent ==
  [][/\ \A i \in DOMAIN cap'.solvers :
          cap'.solvers[i].pc = "done" => SolvedAlone(cap', i)
     /\ (cap.pc \in {"all", "done"} /\ cap'.pc \in {"all", "done"}) =>
          /\ cap'.puzzles = cap.puzzles
          /\ cap'.header = cap.header
          /\ \A i, j \in DOMAIN cap.solvers :
               (cap'.solvers[i] # cap.solvers[i] /\ cap'.solvers[j] # cap.solvers[j])
                 => i = j]_vars

\* C28 witness: two puzzles with different payloads, the first solved by
\* nonce 1 after the second was solved by nonce 0
C28_Witness ==
  /\ cap.pc \in {"all", "done"}
  /\ Len(cap.solvers) = 2
  /\ cap.puzzles[1].puzzle # cap.puzzles[2].puzzle
  /\ cap.solvers[1].pc = "done"
  /\ cap.solvers[2].pc = "done"
  /\ NonceOf(cap.solvers[1].solution) = 1
  /\ NonceOf(cap.solvers[2].solution) = 0
  /\ cap.settled = <<2, 1>>

----------------------------------------------------------------------------
\* C31: when the resend after a challenge is answered by a 429, the call
\* reports Blocked only if that 429 itself carries a challenge header; a 429
\* without one is not reported as Blocked.
C31_BlockedOnlyOnResentChallenge ==
  \A c \in Calls :
    (/\ call[c].resent
     /\ call[c].last.status = 429
     /\ call[c].lastErr.kind = "CaptchaBlocked")
      => call[c].last.puzzle # "none"

\* where call s is within an attempt: the first send, the solve, the resend,
\* the backoff sleep
RankInAttempt(s) ==
  CASE s.pc = "send" -> 3
    [] s.pc = "solve" -> 2
    [] s.pc = "resend" -> 1
    [] s.pc = "sleep" -> 0
    [] OTHER -> -1

\* a measure of what call s has left to do: attempts, then steps of the attempt
Remaining(s) ==
  IF s.pc = "done" THEN -1 ELSE 4 * (s.retries - s.attempt) + RankInAttempt(s)

\* C32: a call with retry budget r makes at most 2 * (r + 1) sends and takes
\* at most r sleeps, its attempt counter never exceeds r and goes up by one
\* with every new iteration of the loop, and every step of the call brings
\* it closer to its end, so that it returns or raises after a bounded
\* number of steps whatever the responses and failures are.
C32_CallTerminates ==
  [][\A c \in Calls :
       LET s == call[c]
           t == call'[c]
       IN  /\ t.pc # "idle" =>
                /\ t.attempt <= t.retries
                /\ t.sends <= 2 * (t.attempt + 1)
                /\ t.sends <= 2 * (t.retries + 1)
                /\ t.sleeps <= t.retries
           /\ (s.pc \notin {"idle", "done"} /\ t # s) =>
                /\ Remaining(t) < Remaining(s)
                /\ Remaining(t) >= -1
                /\ t.attempt \in {s.attempt, s.attempt + 1}
                /\ (s.pc = "sleep" /\ t.pc = "send") => t.attempt = s.attempt + 1
                /\ t.attempt = s.attempt + 1 => s.pc = "sleep"]_vars

\* C32 witness: a call with the default budget that has raised after 8 sends
\* (a challenge, solved and resent, on each of its 4 attempts) and 3 sleeps
C32_Witness ==
  \E c \in Calls :
    /\ call[c].pc = "done"
    /\ call[c].retries = 3
    /\ call[c].sends = 8
    /\ call[c].sleeps = 3
    /\ call[c].attempt = 3
    /\ call[c].result.outcome = "error"

\* the URLs of the details and of the trip of a shipment
OptionalUrls == {DetailsUrl("k1"), TripUrl("k1")}

\* C35: the details and trip calls of a tracking operation are made only
\* once the lookup call has returned a result list whose first entry has an
\* STT; an operation that ends with NOT_FOUND or INVALID_RESPONSE has made
\* the lookup call only, and no details or trip request was sent.
C35_OptionalCallsAfterLookup ==
  [][/\ \A c \in Calls :
          (call'[c].url \in OptionalUrls /\ call[c].url \notin OptionalUrls) =>
             /\ trk.pc = "search"
             /\ trk'.pc = "both"
             /\ call["c1"].pc = "done"
             /\ call["c1"].url = SearchUrl(trk.ref)
             /\ call["c1"].result.outcome = "value"
             /\ call["c1"].result.data = "j1"
             /\ trk'.top = "j1"
     /\ trk'.calls > 1 => trk'.top = "j1"
     /\ (trk'.pc = "done" /\ trk'.result.kind \in {"NOT_FOUND", "INVALID_RESPONSE"}) =>
          /\ trk'.calls = 1
          /\ trk'.netCalls <= 1
          /\ trk'.details.state = "none"
          /\ trk'.trip.state = "none"
          /\ \A c \in Calls : call'[c].url \notin OptionalUrls]_vars

\* C35 witness: an operation ended with INVALID_RESPONSE after a lookup that
\* was sent and returned a first entry without an STT
C35_Witness ==
  /\ trk.pc = "done"
  /\ trk.result.kind = "INVALID_RESPONSE"
  /\ trk.top = "j3"
  /\ trk.calls = 1
  /\ trk.netCalls = 1
  /\ \A c \in Calls : call[c].pc = "idle"

----------------------------------------------------------------------------
\* C33: solveCaptcha is all or nothing: a credential exists only when every
\* token of the challenge was decoded and every puzzle solved, and then it
\* has an entry for each; if one token fails to decode or one search throws
\* there is no credential at all.  In fetchJson a resend is sent only with
\* the credential of the challenge that was just received.
C33_AllOrNothing ==
  /\ cap.credential # <<>> =>
       /\ cap.pc = "done"
       /\ cap.error = "none"
       /\ Len(cap.credential) = Len(TokensOf(cap.header))
       /\ Len(cap.solvers) = Len(cap.credential)
       /\ \A i \in DOMAIN cap.solvers :
            cap.solvers[i].pc = "done" /\ Len(cap.solvers[i].solution) = 8
  /\ (\/ \E i \in DOMAIN cap.solvers : cap.solvers[i].pc # "done"
      \/ \E i \in DOMAIN cap.header :
           /\ cap.header[i].kind = "token"
           /\ cap.header[i].segs # 3 \/ cap.header[i].part # "puzzle")
       => cap.credential = <<>>
  /\ \A c \in Calls :
       call[c].pc = "resend" =>
         /\ call[c].last.puzzle = "good"
         /\ call[c].solution # "none"

\* C33 witness: the first puzzle of a challenge was solved, the search of
\* the second threw, and the call ended with that error and no credential
C33_Witness ==
  /\ cap.pc = "done"
  /\ Len(cap.solvers) = 2
  /\ cap.solvers[1].pc = "done"
  /\ cap.solvers[2].pc = "failed"
  /\ cap.solvers[2].error = "Could not find solution within safe integer range"
  /\ cap.error = cap.solvers[2].error
  /\ cap.credential = <<>>

SampleNonces ==
  {0, 1, 127, 128, 255, 256, 32767, 32768, 65535, 65536, 16777215, 16777216,
   2147483520, 2147483647}

\* C39: numberToInt8Array(n) is 8 bytes whose little-endian unsigned reading
\* is n, and the solution of a credential entry is the encoding of exactly
\* the 8 bytes of the nonce that its search returned.
C39_NonceBytes ==
  /\ \A n \in SampleNonces :
       /\ Len(NumberToInt8Array(n)) = 8
       /\ \A k \in 1..8 : NumberToInt8Array(n)[k] \in -128..127
       /\ \A k \in 1..8 : Base64OfBytes(NumberToInt8Array(n))[k] \in 0..255
       /\ LittleEndian(Base64OfBytes(NumberToInt8Array(n)), 1) = n
  /\ \A i \in DOMAIN cap.solvers :
       cap.solvers[i].pc = "done" =>
         /\ Len(cap.solvers[i].solution) = 8
         /\ LittleEndian(cap.solvers[i].solution, 1) = cap.solvers[i].nonce
         /\ cap.credential # <<>> =>
              cap.credential[i][2] = <<"solution", cap.solvers[i].solution>>

\* C39 witness: a credential whose entry carries the bytes of nonce 2
C39_Witness ==
  /\ cap.pc = "done"
  /\ cap.credential # <<>>
  /\ cap.solvers[1].nonce = 2
  /\ cap.credential[1][2][2] = <<2, 0, 0, 0, 0, 0, 0, 0>>

----------------------------------------------------------------------------
(* Claims about the browser worker *)

\* the sequence s is the beginning of the sequence q
IsPrefix(s, q) ==
  /\ Len(s) <= Len(q)
  /\ \A i \in 1..Len(s) : s[i] = q[i]

\* C36: under every interleaving of track() calls at most one
\* executeTracking is in flight, and the jobs are started in the order in
\* which they were pushed: the started jobs followed by the queue are the
\* pushed jobs.
C36_Serialized ==
  /\ Cardinality(bw.running) <= 1
  /\ bw.running # {} => bw.processing
  /\ IsPrefix(bw.started, bw.enqueued)
  /\ bw.enqueued = bw.started \o bw.queue

\* C36 witness: three jobs were pushed, the second is in executeTracking
\* after the first was settled, the third waits
C36_Witness ==
  /\ Len(bw.enqueued) = 3
  /\ Len(bw.started) = 2
  /\ bw.running = {bw.started[2]}
  /\ bw.queue = <<bw.enqueued[3]>>
  /\ bw.job[bw.started[1]].settled = 1

\* C37: at most one driver is built between two shutdowns.
C37_SingleDriver == bw.built <= 1

\* a job has been pushed and not been settled
Waiting(t) == bw.job[t].pc \in {"queued", "running"}

\* C38: a job is settled at most once, and one that was pushed is settled
\* in the end; the queue is empty whenever processing is false; only the
\* jobs that were resolved have written the cache.
C38_JobsSettle ==
  /\ [](/\ \A t \in Callers :
             /\ bw.job[t].settled <= 1
             /\ bw.job[t].settled = 1 <=>
                  bw.job[t].outcome \in {"resolved", "rejected"}
             /\ t \in bw.written <=> bw.job[t].outcome = "resolved"
         /\ ~bw.processing => bw.queue = <<>> /\ bw.running = {})
  /\ \A t \in Callers :
       Waiting(t) ~> (bw.job[t].pc = "done" /\ bw.job[t].settled = 1)

\* C38 witness: two jobs were pushed; the first was rejected and wrote
\* nothing, the second was resolved and its result cached; the loop is over
C38_Witness ==
  /\ Len(bw.started) = 2
  /\ bw.job[bw.started[1]].outcome = "rejected"
  /\ bw.job[bw.started[2]].outcome = "resolved"
  /\ bw.written = {bw.started[2]}
  /\ bw.cache[bw.job[bw.started[2]].ref] # NoStamp
  /\ ~bw.processing
  /\ bw.queue = <<>>
====
